---- MODULE Spec2Model ----
(***************************************************************************)
(* cloki: a logger that pushes one envelope per log call to Grafana Loki.  *)
(* The model follows src/src/logger.ts: getLokiLogger's merged config, the *)
(* synchronous part of log() up to its first suspension, sendWithRetry's   *)
(* loop, sendToLoki's credential check and transport call, and the         *)
(* continuations that run when the transport answers, when a backoff timer *)
(* fires, and when the awaited delivery settles.                           *)
(***************************************************************************)
EXTENDS Integers, Sequences, FiniteSets, TLC

\* ------------------------------------------------------------------ bounds
\* Largest configured retry count explored.
MaxRetries == 2
\* Number of log calls issued on the logger over its lifetime.
MaxLogCalls == 2

\* ------------------------------------------------- optional values (undefined)
None == <<>>
Some(x) == <<x>>

\* JavaScript truthiness of an optional string: undefined and "" are falsy.
TruthyStr(o) == o # None /\ o[1] # ""
\* JavaScript truthiness of an optional number: undefined and 0 are falsy.
TruthyNum(o) == o # None /\ o[1] # 0

\* ------------------------------------------------------------------ levels
LogLevel == {"debug", "info", "warn", "error"}

LOG_LEVEL_PRIORITY == [debug |-> 0, info |-> 1, warn |-> 2, error |-> 3]

\* ----------------------------------------------------------------- objects
\* A JavaScript object with string members is a sequence of <<key, value>>
\* pairs with distinct keys, in insertion order.  Label sets and structured
\* messages are such objects.
EmptyObject == <<>>

Keys(o) == {o[j][1] : j \in 1..Len(o)}

Has(o, k) == k \in Keys(o)

Get(o, k) == o[CHOOSE j \in 1..Len(o) : o[j][1] = k][2]

\* o[k] = v: an existing key keeps its position, a new key is appended.
Put(o, k, v) ==
  IF Has(o, k)
  THEN [j \in 1..Len(o) |-> IF o[j][1] = k THEN <<k, v>> ELSE o[j]]
  ELSE Append(o, <<k, v>>)

\* Object spread {...a, ...b}: the later source wins every key conflict.
RECURSIVE Spread(_, _)
Spread(a, b) ==
  IF b = <<>> THEN a ELSE Spread(Put(a, b[1][1], b[1][2]), Tail(b))

\* Spreading an undefined value contributes nothing.
SpreadOpt(a, o) == IF o = None THEN a ELSE Spread(a, o[1])

\* ---------------------------------------------------------------- messages
\* A log message is a string or an object.
StringMessage(s) == [isString |-> TRUE, str |-> s, obj |-> <<>>]
ObjectMessage(o) == [isString |-> FALSE, str |-> "", obj |-> o]

\* Faulty variant: an object message is wrapped as well, as its string form.
normalizedMessageWrapsObjects(message) ==
  << <<"message", IF message.isString THEN message.str ELSE "[object Object]">> >>

\* typeof message === "string" ? { message } : message
normalizedMessage(message) ==
  IF message.isString THEN << <<"message", message.str>> >> ELSE message.obj

\* A member whose value is a number; the other members hold strings.
NumberMember(k, n) == <<k, n, "number">>

RECURSIVE JSONMembers(_)
JSONMembers(obj) ==
  IF obj = <<>> THEN ""
  ELSE "\"" \o obj[1][1] \o "\":"
       \o (IF Len(obj[1]) = 3 THEN ToString(obj[1][2])
           ELSE "\"" \o obj[1][2] \o "\"")
       \o (IF Len(obj) > 1 THEN "," ELSE "") \o JSONMembers(Tail(obj))

\* JSON.stringify of an object with string and number members.
JSONStringify(obj) == "{" \o JSONMembers(obj) \o "}"

\* ----------------------------------------------------------- configuration
\* A configuration, as given to getLokiLogger and as merged by it.
\* Optional fields are None when absent; onSendError and format record whether
\* a callback is configured; ctx names the default ExecutionContext.
BaseConfig ==
  [lokiHost |-> Some("h"), lokiToken |-> Some("t"), lokiUser |-> Some("u"),
   defaultLabels |-> None, minLevel |-> None, retries |-> None,
   onSendError |-> FALSE, format |-> FALSE, silent |-> FALSE,
   cf |-> None, ctx |-> None]

RetriesValues == {None, Some(-1)} \cup {Some(n) : n \in 0..MaxRetries}

CtxValues == {None, Some("ctx1")}

\* Retry policy, failure hook and default capability.
DeliveryConfigs ==
  {[BaseConfig EXCEPT !.retries = r, !.onSendError = h, !.ctx = x] :
     r \in RetriesValues, h \in BOOLEAN, x \in CtxValues}

\* A custom formatter, with and without retries, hook and capability, and
\* once next to default labels and request.cf properties.
FormatConfigs ==
  {[BaseConfig EXCEPT !.format = TRUE, !.retries = r, !.onSendError = h, !.ctx = x] :
     r \in {None, Some(1)}, h \in BOOLEAN, x \in CtxValues}
  \cup {[BaseConfig EXCEPT !.format = TRUE,
                           !.defaultLabels = Some(<< <<"env", "prod">> >>),
                           !.cf = Some([colo |-> Some("KIX"), country |-> Some("JP"),
                                        city |-> Some("Osaka"), asn |-> Some(12345)])]}

\* Level filter and silent mode, with and without formatter and capability.
GateConfigs ==
  {[BaseConfig EXCEPT !.minLevel = m, !.silent = s, !.format = f, !.ctx = x] :
     m \in {None} \cup {Some(l) : l \in LogLevel}, s \in BOOLEAN,
     f \in BOOLEAN, x \in CtxValues}

\* Host, user or token absent or empty.
CredentialConfigs ==
  {[BaseConfig EXCEPT !.lokiHost = c[1], !.lokiUser = c[2], !.lokiToken = c[3],
                      !.retries = r, !.onSendError = h, !.ctx = x] :
     c \in {<<None, Some("u"), Some("t")>>, <<Some("h"), Some(""), Some("t")>>,
            <<Some("h"), Some("u"), None>>, <<Some(""), None, None>>},
     r \in {None, Some(1)}, h \in BOOLEAN, x \in CtxValues}

DefaultLabelsValues ==
  {None, Some(<< <<"env", "prod">> >>),
   Some(<< <<"level", "fromDefault">>, <<"cf_colo", "fromDefault">> >>)}

CfValues ==
  {None,
   Some([colo |-> Some("KIX"), country |-> Some("JP"), city |-> Some("Osaka"),
         asn |-> Some(12345)]),
   Some([colo |-> Some("NRT"), country |-> Some(""), city |-> None,
         asn |-> Some(0)])}

\* Default labels and request.cf properties.
LabelConfigs ==
  {[BaseConfig EXCEPT !.defaultLabels = d, !.cf = p] :
     d \in DefaultLabelsValues, p \in CfValues}

Configs ==
  DeliveryConfigs \cup FormatConfigs \cup GateConfigs \cup CredentialConfigs
  \cup LabelConfigs

\* ------------------------------------------------------------ construction
\* The environment (process.env, or the global object where there is no
\* process): the variables getLokiLogger reads, None when unset.
Environment(host, url, user, token) ==
  [LOKI_HOST |-> host, LOKI_URL |-> url, LOKI_USER |-> user, LOKI_TOKEN |-> token]

NoEnvironment == Environment(None, None, None, None)

BlankEnvironment == Environment(Some(""), Some(""), Some(""), Some(""))

getEnv(e, name) == e[name]

\* a || b on optional strings: a when it is a non-empty string, b otherwise.
OrElse(a, b) == IF TruthyStr(a) THEN a ELSE b

\* url.replace(/^https?:\/\//, "")
replaceScheme(url) ==
  IF Len(url) >= 8 /\ SubSeq(url, 1, 8) = "https://" THEN SubSeq(url, 9, Len(url))
  ELSE IF Len(url) >= 7 /\ SubSeq(url, 1, 7) = "http://" THEN SubSeq(url, 8, Len(url))
  ELSE url

\* Faulty variant: the environment takes precedence over the given values.
getLokiLoggerEnvFirst(cfg, e) ==
  [cfg EXCEPT
     !.lokiHost = OrElse(getEnv(e, "LOKI_HOST"),
                    OrElse(IF getEnv(e, "LOKI_URL") = None THEN None
                           ELSE Some(replaceScheme(getEnv(e, "LOKI_URL")[1])),
                           cfg.lokiHost)),
     !.lokiToken = OrElse(getEnv(e, "LOKI_TOKEN"), cfg.lokiToken),
     !.lokiUser = OrElse(getEnv(e, "LOKI_USER"), cfg.lokiUser)]

\* mergedConfig: host, token and user from the given configuration, else from
\* the environment.
getLokiLogger(cfg, e) ==
  [cfg EXCEPT
     !.lokiHost = OrElse(cfg.lokiHost,
                    OrElse(getEnv(e, "LOKI_HOST"),
                           IF getEnv(e, "LOKI_URL") = None THEN None
                           ELSE Some(replaceScheme(getEnv(e, "LOKI_URL")[1])))),
     !.lokiToken = OrElse(cfg.lokiToken, getEnv(e, "LOKI_TOKEN")),
     !.lokiUser = OrElse(cfg.lokiUser, getEnv(e, "LOKI_USER"))]

\* ------------------------------------------------------------- call inputs
Messages ==
  {StringMessage("hello"), ObjectMessage(<< <<"test", "message">> >>)}

LabelsValues ==
  {None, Some(<< <<"hoge", "huga">> >>),
   Some(<< <<"level", "fromCall">>, <<"env", "fromCall">>,
           <<"cf_colo", "fromCall">> >>)}

\* Arguments of one level method call: the level is the method's name.
Args(l, m, lb, x) == [logLevel |-> l, message |-> m, labels |-> lb, ctx |-> x]

CallInputs ==
  {Args(l, StringMessage("hello"), None, None) : l \in LogLevel}
  \cup {Args(l, StringMessage("hello"), None, Some("ctx2")) : l \in {"debug", "info"}}
  \cup {Args("info", m, lb, None) : m \in Messages, lb \in LabelsValues}

\* ------------------------------------------------------------------ errors
Error(source, message) == [source |-> source, message |-> message]

ConfigError ==
  Error("sendToLoki", "Loki configuration missing (host, user, or token)")

StatusError(response) ==
  Error("sendToLoki", "Loki push failed: " \o ToString(response.status)
                       \o " " \o response.statusText)

\* What the transport, a callback or a capability throws is theirs to choose.
NetworkError == Error("fetch", "fetch failed")
FormatError == Error("format", "format failed")
HookError == Error("onSendError", "onSendError failed")
WaitUntilError == Error("waitUntil", "waitUntil failed")

Responses ==
  {[ok |-> TRUE, status |-> 200, statusText |-> "OK"],
   [ok |-> FALSE, status |-> 500, statusText |-> "Fatal"]}

\* ----------------------------------------------------------------- encoder
\* Labels derived from config.cf: a falsy property contributes no label.
cfLabels(cfg) ==
  IF cfg.cf = None THEN EmptyObject
  ELSE LET cf == cfg.cf[1]
           l1 == IF TruthyStr(cf.colo) THEN Put(EmptyObject, "cf_colo", cf.colo[1])
                 ELSE EmptyObject
           l2 == IF TruthyStr(cf.country) THEN Put(l1, "cf_country", cf.country[1])
                 ELSE l1
           l3 == IF TruthyStr(cf.city) THEN Put(l2, "cf_city", cf.city[1]) ELSE l2
       IN  IF TruthyNum(cf.asn) THEN Put(l3, "cf_asn", ToString(cf.asn[1])) ELSE l3

\* Faulty variant: the call-site labels are spread first instead of last.
StreamLabelsCallFirst(cfg, logLevel, labels) ==
  Spread(SpreadOpt(Spread(labels, << <<"level", logLevel>> >>), cfg.defaultLabels),
         cfLabels(cfg))

\* { level: logLevel, ...config.defaultLabels, ...cfLabels, ...labels }
StreamLabels(cfg, logLevel, labels) ==
  Spread(Spread(SpreadOpt(<< <<"level", logLevel>> >>, cfg.defaultLabels),
                cfLabels(cfg)),
         labels)

\* `${Date.now().toString()}000000`
\* Faulty variant: the timestamp stays in milliseconds.
TimestampMillis(t) == ToString(t)

\* `${Date.now().toString()}000000`
Timestamp(t) == ToString(t) \o "000000"

LokiMessage(stream, values) ==
  [streams |-> << [stream |-> stream, values |-> values] >>]

generateLokiMessage(cfg, logLevel, message, labels, t) ==
  LokiMessage(StreamLabels(cfg, logLevel, labels),
              << <<Timestamp(t), JSONStringify(message)>> >>)

\* The envelope a configured formatter returns; the library does not look at it.
CustomMessage(logLevel, message, labels) ==
  LokiMessage(<< <<"custom", "label">> >>, << <<"123456", "custom-body">> >>)

\* ---------------------------------------------------------------- transport
\* The arguments sendToLoki gives to fetch.
Request(cfg, lokiMessage) ==
  [url |-> "https://" \o cfg.lokiHost[1] \o "/loki/api/v1/push",
   method |-> "POST",
   contentType |-> "application/json",
   authorization |-> <<"Basic", "btoa", cfg.lokiUser[1] \o ":" \o cfg.lokiToken[1]>>,
   body |-> <<"JSON.stringify", lokiMessage>>]

\* ------------------------------------------------------------------- state
VARIABLES
  given,           \* the configuration getLokiLogger was called with
  env,             \* the environment, as it is now
  config,          \* the logger's merged configuration
  calls,           \* per slot, the log call in progress or last finished there
  now,             \* Date.now(), in milliseconds
  ncalls,          \* number of log calls issued so far
  waitUntilCalls,  \* per ExecutionContext, the number of waitUntil invocations
  wrapped          \* the invocation of a wrapped function in progress or last finished

vars == <<given, env, config, calls, now, ncalls, waitUntilCalls, wrapped>>

\* One log call is in progress at a time: the next call starts when the
\* previous call and its delivery are over.
Slots == {1}

CtxNames == {"ctx1", "ctx2"}

Event(op, arg) == [op |-> op, arg |-> arg]

NoArgs == Args("debug", StringMessage(""), None, None)

\* A slot before any call.  pc is the state of the promise the level method
\* returned (idle, awaiting, resolved, rejected); delivery is the state of the
\* sendWithRetry operation (none, threw, inflight, backoff, fulfilled,
\* rejected); i, lastError and lokiMessage are sendWithRetry's locals;
\* response is what fetch returned to the current sendToLoki call, None before
\* that and when fetch threw; thrown is the error the latest sendToLoki attempt
\* rejected with; timer is the deadline of the backoff timer; trace lists the
\* call's observable effects.
NewCall ==
  [args |-> NoArgs, pc |-> "idle", callError |-> None, lokiMessage |-> None,
   delivery |-> "none", deliveryError |-> None, i |-> 0, lastError |-> None,
   response |-> None, thrown |-> None, timer |-> 0, trace |-> <<>>]

\* No wrapped function has been invoked.  pc is the state of the invocation
\* (idle, running, ended, logging, returned, raised); start and end are the
\* instants read around the operation; outcome is what the operation did and
\* result what the wrapper gave its caller, each None, <<"value", v>> or
\* <<"failure", message>>; invocations counts the invocations so far.
NotWrapped ==
  [pc |-> "idle", name |-> "", start |-> 0, end |-> 0, outcome |-> None,
   result |-> None, invocations |-> 0]

Count(rec, op) == Cardinality({k \in 1..Len(rec.trace) : rec.trace[k].op = op})

\* Position of the first event op in the trace, 0 if there is none.
First(rec, op) ==
  IF Count(rec, op) = 0 THEN 0
  ELSE CHOOSE k \in 1..Len(rec.trace) :
         /\ rec.trace[k].op = op
         /\ \A j \in 1..(k - 1) : rec.trace[j].op # op

Last(rec, op) ==
  IF Count(rec, op) = 0 THEN 0
  ELSE CHOOSE k \in 1..Len(rec.trace) :
         /\ rec.trace[k].op = op
         /\ \A j \in (k + 1)..Len(rec.trace) : rec.trace[j].op # op

\* ---------------------------------------------------------------- delivery
\* const retries = config.retries || 0
Retries(cfg) == IF TruthyNum(cfg.retries) THEN cfg.retries[1] ELSE 0

\* Faulty variant: the wait does not grow.
BackoffConstant(i) == 100 + 0 * i

\* 100 * 2 ** i
Backoff(i) == 100 * 2 ^ i

\* sendToLoki up to its first suspension: the credential check rejects the
\* attempt before any transport call, otherwise fetch is invoked.
sendToLoki(cfg, rec) ==
  IF ~TruthyStr(cfg.lokiHost) \/ ~TruthyStr(cfg.lokiUser) \/ ~TruthyStr(cfg.lokiToken)
  THEN [rec EXCEPT !.delivery = "threw", !.thrown = Some(ConfigError),
                   !.trace = Append(@, Event("sendToLoki", rec.i))]
  ELSE [rec EXCEPT !.delivery = "inflight", !.response = None,
                   !.trace = @ \o <<Event("sendToLoki", rec.i),
                                    Event("fetch", Request(cfg, rec.lokiMessage[1]))>>]

\* Faulty variant: after reporting, the last error is thrown to the caller.
failureHookRethrows(cfg, rec, hookThrows) ==
  [rec EXCEPT !.trace = Append(@, Event(IF cfg.onSendError THEN "onSendError"
                                        ELSE "console.error", rec.lastError)),
              !.delivery = "rejected",
              !.deliveryError = rec.lastError]

\* After the loop: onSendError if configured, console.error otherwise.  An
\* exception of the callback rejects the sendWithRetry operation.
failureHook(cfg, rec, hookThrows) ==
  IF cfg.onSendError
  THEN [rec EXCEPT !.trace = Append(@, Event("onSendError",
                                             <<rec.lastError, rec.lokiMessage[1]>>)),
                   !.delivery = IF hookThrows THEN "rejected" ELSE "fulfilled",
                   !.deliveryError = IF hookThrows THEN Some(HookError) ELSE None]
  ELSE [rec EXCEPT !.trace = Append(@, Event("console.error",
                                <<"Loki logging failed after retries:", rec.lastError>>)),
                   !.delivery = "fulfilled"]

\* Faulty variant: the loop runs while i < retries, one attempt short.
sendWithRetryShortLoop(cfg, rec, hookThrows) ==
  IF rec.i < Retries(cfg) THEN sendToLoki(cfg, rec)
  ELSE failureHook(cfg, rec, hookThrows)

\* The loop test of sendWithRetry at the current i: another attempt, or the
\* failure hook once i has passed retries.
sendWithRetry(cfg, rec, hookThrows) ==
  IF rec.i <= Retries(cfg) THEN sendToLoki(cfg, rec)
  ELSE failureHook(cfg, rec, hookThrows)

\* Faulty variant: lastError keeps the error of the first failed attempt.
catchKeepsFirstError(cfg, rec, e, t, hookThrows) ==
  LET r == [rec EXCEPT !.lastError = IF @ = None THEN Some(e) ELSE @]
  IN  IF rec.i < Retries(cfg)
      THEN [r EXCEPT !.delivery = "backoff", !.timer = t + Backoff(rec.i),
                     !.trace = Append(@, Event("setTimeout", Backoff(rec.i)))]
      ELSE sendWithRetry(cfg, [r EXCEPT !.i = @ + 1], hookThrows)

\* Faulty variant: a configuration error is not retried.
catchSkipsConfigRetries(cfg, rec, e, t, hookThrows) ==
  LET r == [rec EXCEPT !.lastError = Some(e)]
  IN  IF rec.i < Retries(cfg) /\ e # ConfigError
      THEN [r EXCEPT !.delivery = "backoff", !.timer = t + Backoff(rec.i),
                     !.trace = Append(@, Event("setTimeout", Backoff(rec.i)))]
      ELSE failureHook(cfg, [r EXCEPT !.i = Retries(cfg) + 1], hookThrows)

\* Faulty variant: the backoff timer is set but not awaited.
catchNoAwait(cfg, rec, e, t, hookThrows) ==
  LET r == [rec EXCEPT !.lastError = Some(e)]
  IN  IF rec.i < Retries(cfg)
      THEN sendWithRetry(cfg,
                         [r EXCEPT !.i = @ + 1,
                                   !.trace = Append(@, Event("setTimeout", Backoff(rec.i)))],
                         hookThrows)
      ELSE sendWithRetry(cfg, [r EXCEPT !.i = @ + 1], hookThrows)

\* Faulty variant: after the last failure the loop waits on a promise that
\* nothing resolves.
catchNeverSettles(cfg, rec, e, t, hookThrows) ==
  LET r == [rec EXCEPT !.lastError = Some(e)]
  IN  IF rec.i < Retries(cfg)
      THEN [r EXCEPT !.delivery = "backoff", !.timer = t + Backoff(rec.i),
                     !.trace = Append(@, Event("setTimeout", Backoff(rec.i)))]
      ELSE [r EXCEPT !.delivery = "pending"]

\* The catch block: remember the error, then back off or leave the loop.
catch(cfg, rec, e, t, hookThrows) ==
  LET r == [rec EXCEPT !.lastError = Some(e)]
  IN  IF rec.i < Retries(cfg)
      THEN [r EXCEPT !.delivery = "backoff", !.timer = t + Backoff(rec.i),
                     !.trace = Append(@, Event("setTimeout", Backoff(rec.i)))]
      ELSE sendWithRetry(cfg, [r EXCEPT !.i = @ + 1], hookThrows)

\* --------------------------------------------------------------------- log
\* Faulty variant: a call at the minimum level is dropped too.
FilteredInclusive(cfg, logLevel) ==
  LET minLevel == IF cfg.minLevel = None THEN "debug" ELSE cfg.minLevel[1]
  IN  LOG_LEVEL_PRIORITY[logLevel] <= LOG_LEVEL_PRIORITY[minLevel]

\* minLevel = config.minLevel || "debug"; the call is dropped below it.
Filtered(cfg, logLevel) ==
  LET minLevel == IF cfg.minLevel = None THEN "debug" ELSE cfg.minLevel[1]
  IN  LOG_LEVEL_PRIORITY[logLevel] < LOG_LEVEL_PRIORITY[minLevel]

\* Faulty variant: the config capability takes precedence over the call-site one.
effectiveCtxConfigFirst(cfg, ctx) == IF cfg.ctx # None THEN cfg.ctx ELSE ctx

\* const effectiveCtx = ctx || config.ctx
effectiveCtx(cfg, ctx) == IF ctx # None THEN ctx ELSE cfg.ctx

\* lokiInfo, lokiWarn, lokiError, lokiDebug: labels default to {}.
LabelsOrDefault(labels) == IF labels = None THEN EmptyObject ELSE labels[1]

\* Faulty variant: the delivery is handed to waitUntil and awaited as well.
scheduleAlsoAwaits(cfg, rec, wuThrows) ==
  LET ctx == effectiveCtx(cfg, rec.args.ctx)
  IN  IF ctx # None
      THEN [rec EXCEPT !.trace = Append(@, Event("waitUntil", ctx[1])),
                       !.pc = IF wuThrows THEN "rejected" ELSE "awaiting",
                       !.callError = IF wuThrows THEN Some(WaitUntilError) ELSE None]
      ELSE [rec EXCEPT !.pc = "awaiting"]

\* The last step of log: hand the delivery to waitUntil, or await it.
schedule(cfg, rec, wuThrows) ==
  LET ctx == effectiveCtx(cfg, rec.args.ctx)
  IN  IF ctx # None
      THEN [rec EXCEPT !.trace = Append(@, Event("waitUntil", ctx[1])),
                       !.pc = IF wuThrows THEN "rejected" ELSE "resolved",
                       !.callError = IF wuThrows THEN Some(WaitUntilError) ELSE None]
      ELSE [rec EXCEPT !.pc = "awaiting"]

\* Faulty variant: silent mode returns before the echo.
logSilentBeforeEcho(cfg, a, t, fmtThrows, hookThrows, wuThrows) ==
  LET labels == LabelsOrDefault(a.labels)
      message == normalizedMessage(a.message)
      r0 == [NewCall EXCEPT !.args = a]
      r1 == [r0 EXCEPT !.trace = Append(@, Event("console.log", JSONStringify(message)))]
      r2 == IF cfg.format
            THEN [r1 EXCEPT !.trace = Append(@, Event("format",
                                                      <<a.logLevel, message, labels>>)),
                            !.lokiMessage = Some(CustomMessage(a.logLevel, message, labels))]
            ELSE [r1 EXCEPT !.trace = Append(@, Event("generateLokiMessage", t)),
                            !.lokiMessage = Some(generateLokiMessage(cfg, a.logLevel,
                                                                     message, labels, t))]
  IN  IF Filtered(cfg, a.logLevel) \/ cfg.silent THEN [r0 EXCEPT !.pc = "resolved"]
      ELSE IF cfg.format /\ fmtThrows
      THEN [r1 EXCEPT !.trace = @ \o <<Event("format", <<a.logLevel, message, labels>>),
                                       Event("threw", FormatError)>>,
                      !.pc = "rejected", !.callError = Some(FormatError)]
      ELSE schedule(cfg, sendWithRetry(cfg, r2, hookThrows), wuThrows)

\* Faulty variant: silent mode is tested after the envelope is built.
logSilentAfterEncode(cfg, a, t, fmtThrows, hookThrows, wuThrows) ==
  LET labels == LabelsOrDefault(a.labels)
      message == normalizedMessage(a.message)
      r0 == [NewCall EXCEPT !.args = a]
      r1 == [r0 EXCEPT !.trace = Append(@, Event("console.log", JSONStringify(message)))]
      r2 == IF cfg.format
            THEN [r1 EXCEPT !.trace = Append(@, Event("format",
                                                      <<a.logLevel, message, labels>>)),
                            !.lokiMessage = Some(CustomMessage(a.logLevel, message, labels))]
            ELSE [r1 EXCEPT !.trace = Append(@, Event("generateLokiMessage", t)),
                            !.lokiMessage = Some(generateLokiMessage(cfg, a.logLevel,
                                                                     message, labels, t))]
  IN  IF Filtered(cfg, a.logLevel) THEN [r0 EXCEPT !.pc = "resolved"]
      ELSE IF cfg.format /\ fmtThrows
      THEN [r1 EXCEPT !.trace = @ \o <<Event("format", <<a.logLevel, message, labels>>),
                                       Event("threw", FormatError)>>,
                      !.pc = "rejected", !.callError = Some(FormatError)]
      ELSE IF cfg.silent THEN [r2 EXCEPT !.pc = "resolved"]
      ELSE schedule(cfg, sendWithRetry(cfg, r2, hookThrows), wuThrows)

\* Faulty variant: the library adds its labels to the formatter's envelope.
logLabelsFormatted(cfg, a, t, fmtThrows, hookThrows, wuThrows) ==
  LET labels == LabelsOrDefault(a.labels)
      message == normalizedMessage(a.message)
      custom == CustomMessage(a.logLevel, message, labels)
      r0 == [NewCall EXCEPT !.args = a]
      r1 == [r0 EXCEPT !.trace = Append(@, Event("console.log", JSONStringify(message)))]
      r2 == IF cfg.format
            THEN [r1 EXCEPT !.trace = Append(@, Event("format",
                                                      <<a.logLevel, message, labels>>)),
                            !.lokiMessage =
                              Some(LokiMessage(Spread(StreamLabels(cfg, a.logLevel, labels),
                                                      custom.streams[1].stream),
                                               custom.streams[1].values))]
            ELSE [r1 EXCEPT !.trace = Append(@, Event("generateLokiMessage", t)),
                            !.lokiMessage = Some(generateLokiMessage(cfg, a.logLevel,
                                                                     message, labels, t))]
  IN  IF Filtered(cfg, a.logLevel) THEN [r0 EXCEPT !.pc = "resolved"]
      ELSE IF cfg.silent THEN [r1 EXCEPT !.pc = "resolved"]
      ELSE IF cfg.format /\ fmtThrows
      THEN [r1 EXCEPT !.trace = @ \o <<Event("format", <<a.logLevel, message, labels>>),
                                       Event("threw", FormatError)>>,
                      !.pc = "rejected", !.callError = Some(FormatError)]
      ELSE schedule(cfg, sendWithRetry(cfg, r2, hookThrows), wuThrows)

\* Faulty variant: when the formatter throws, the default encoder is used.
logFormatFallsBack(cfg, a, t, fmtThrows, hookThrows, wuThrows) ==
  LET labels == LabelsOrDefault(a.labels)
      message == normalizedMessage(a.message)
      r0 == [NewCall EXCEPT !.args = a]
      r1 == [r0 EXCEPT !.trace = Append(@, Event("console.log", JSONStringify(message)))]
      r2 == IF cfg.format
            THEN [r1 EXCEPT !.trace = Append(@, Event("format",
                                                      <<a.logLevel, message, labels>>)),
                            !.lokiMessage = Some(CustomMessage(a.logLevel, message, labels))]
            ELSE [r1 EXCEPT !.trace = Append(@, Event("generateLokiMessage", t)),
                            !.lokiMessage = Some(generateLokiMessage(cfg, a.logLevel,
                                                                     message, labels, t))]
      r3 == [r1 EXCEPT !.trace = @ \o <<Event("format", <<a.logLevel, message, labels>>),
                                        Event("threw", FormatError),
                                        Event("generateLokiMessage", t)>>,
                       !.lokiMessage = Some(generateLokiMessage(cfg, a.logLevel,
                                                                message, labels, t))]
  IN  IF Filtered(cfg, a.logLevel) THEN [r0 EXCEPT !.pc = "resolved"]
      ELSE IF cfg.silent THEN [r1 EXCEPT !.pc = "resolved"]
      ELSE IF cfg.format /\ fmtThrows
      THEN schedule(cfg, sendWithRetry(cfg, r3, hookThrows), wuThrows)
      ELSE schedule(cfg, sendWithRetry(cfg, r2, hookThrows), wuThrows)

\* Faulty variant: the echo is written after the envelope has been built.
logEchoAfterEncode(cfg, a, t, fmtThrows, hookThrows, wuThrows) ==
  LET labels == LabelsOrDefault(a.labels)
      message == normalizedMessage(a.message)
      echo == Event("console.log", JSONStringify(message))
      r0 == [NewCall EXCEPT !.args = a]
      r1 == [r0 EXCEPT !.trace = Append(@, echo)]
      r2 == IF cfg.format
            THEN [r0 EXCEPT !.trace = @ \o <<Event("format",
                                                   <<a.logLevel, message, labels>>), echo>>,
                            !.lokiMessage = Some(CustomMessage(a.logLevel, message, labels))]
            ELSE [r0 EXCEPT !.trace = @ \o <<Event("generateLokiMessage", t), echo>>,
                            !.lokiMessage = Some(generateLokiMessage(cfg, a.logLevel,
                                                                     message, labels, t))]
  IN  IF Filtered(cfg, a.logLevel) THEN [r0 EXCEPT !.pc = "resolved"]
      ELSE IF cfg.silent THEN [r1 EXCEPT !.pc = "resolved"]
      ELSE IF cfg.format /\ fmtThrows
      THEN [r0 EXCEPT !.trace = @ \o <<Event("format", <<a.logLevel, message, labels>>),
                                       Event("threw", FormatError)>>,
                      !.pc = "rejected", !.callError = Some(FormatError)]
      ELSE schedule(cfg, sendWithRetry(cfg, r2, hookThrows), wuThrows)

\* log() from its entry to its first suspension, at clock instant t.
log(cfg, a, t, fmtThrows, hookThrows, wuThrows) ==
  LET labels == LabelsOrDefault(a.labels)
      message == normalizedMessage(a.message)
      r0 == [NewCall EXCEPT !.args = a]
      r1 == [r0 EXCEPT !.trace = Append(@, Event("console.log", JSONStringify(message)))]
      r2 == IF cfg.format
            THEN [r1 EXCEPT !.trace = Append(@, Event("format",
                                                      <<a.logLevel, message, labels>>)),
                            !.lokiMessage = Some(CustomMessage(a.logLevel, message, labels))]
            ELSE [r1 EXCEPT !.trace = Append(@, Event("generateLokiMessage", t)),
                            !.lokiMessage = Some(generateLokiMessage(cfg, a.logLevel,
                                                                     message, labels, t))]
  IN  IF Filtered(cfg, a.logLevel) THEN [r0 EXCEPT !.pc = "resolved"]
      ELSE IF cfg.silent THEN [r1 EXCEPT !.pc = "resolved"]
      ELSE IF cfg.format /\ fmtThrows
      THEN [r1 EXCEPT !.trace = @ \o <<Event("format", <<a.logLevel, message, labels>>),
                                       Event("threw", FormatError)>>,
                      !.pc = "rejected", !.callError = Some(FormatError)]
      ELSE schedule(cfg, sendWithRetry(cfg, r2, hookThrows), wuThrows)

\* ------------------------------------------------------------------ actions
Init ==
  /\ given \in Configs
  /\ env \in IF given \in CredentialConfigs THEN {NoEnvironment, BlankEnvironment}
             ELSE {NoEnvironment}
  /\ config = getLokiLogger(given, env)
  /\ calls = [c \in Slots |-> NewCall]
  /\ now = 0
  /\ ncalls = 0
  /\ waitUntilCalls = [x \in CtxNames |-> 0]
  /\ wrapped = NotWrapped

Settled(rec) ==
  /\ rec.pc \in {"idle", "resolved", "rejected"}
  /\ rec.delivery \in {"none", "fulfilled", "rejected"}

\* Faulty variant: the call-site labels are assigned into config.defaultLabels
\* instead of being spread into a new stream object.
LogAssignsLabels(c, a, fmtThrows, hookThrows, wuThrows) ==
  /\ ncalls < MaxLogCalls
  /\ Settled(calls[c])
  /\ \A d \in DOMAIN calls : d < c => ~Settled(calls[d])
  /\ LET rec == log(config, a, now, fmtThrows, hookThrows, wuThrows)
     IN  /\ calls' = [calls EXCEPT ![c] = rec]
         /\ waitUntilCalls' =
              IF Count(rec, "waitUntil") > 0
              THEN [waitUntilCalls EXCEPT ![effectiveCtx(config, a.ctx)[1]] = @ + 1]
              ELSE waitUntilCalls
         /\ config' =
              IF rec.lokiMessage # None /\ ~config.format
              THEN [config EXCEPT !.defaultLabels =
                      Some(Spread(SpreadOpt(EmptyObject, @), LabelsOrDefault(a.labels)))]
              ELSE config
  /\ ncalls' = ncalls + 1
  /\ UNCHANGED <<given, env, now>>

\* logger.debug / info / warn / error: a new call takes the first slot whose
\* previous call and delivery are over.
Log(c, a, fmtThrows, hookThrows, wuThrows) ==
  /\ ncalls < MaxLogCalls
  /\ Settled(calls[c])
  /\ \A d \in DOMAIN calls : d < c => ~Settled(calls[d])
  /\ LET rec == log(config, a, now, fmtThrows, hookThrows, wuThrows)
     IN  /\ calls' = [calls EXCEPT ![c] = rec]
         /\ waitUntilCalls' =
              IF Count(rec, "waitUntil") > 0
              THEN [waitUntilCalls EXCEPT ![effectiveCtx(config, a.ctx)[1]] = @ + 1]
              ELSE waitUntilCalls
  /\ ncalls' = ncalls + 1
  /\ UNCHANGED <<given, env, config, now>>

\* sendToLoki rejects with e: the attempt has failed.
Throw(rec, e) ==
  [rec EXCEPT !.thrown = Some(e), !.trace = Append(@, Event("failed", rec.i))]

\* Faulty variant: a successful attempt does not leave the retry loop.
FetchResolveNoReturn(c, response, hookThrows) ==
  /\ calls[c].delivery = "inflight"
  /\ calls' = [calls EXCEPT ![c] =
       IF response.ok
       THEN sendWithRetry(config,
                          [@ EXCEPT !.i = @ + 1, !.response = Some(response),
                                    !.trace = Append(@, Event("ok", calls[c].i))],
                          hookThrows)
       ELSE catch(config, Throw([@ EXCEPT !.response = Some(response)],
                                StatusError(response)),
                  StatusError(response), now, hookThrows)]
  /\ UNCHANGED <<wrapped, given, env, config, now, ncalls, waitUntilCalls>>

\* Faulty variant: any response of the transport counts as a success.
FetchResolveIgnoresStatus(c, response, hookThrows) ==
  /\ calls[c].delivery = "inflight"
  /\ calls' = [calls EXCEPT ![c] =
       [@ EXCEPT !.delivery = "fulfilled", !.response = Some(response),
                 !.trace = Append(@, Event("ok", calls[c].i))]]
  /\ UNCHANGED <<wrapped, given, env, config, now, ncalls, waitUntilCalls>>

\* The transport answers: a successful status ends the delivery, any other
\* status is thrown by sendToLoki and caught by sendWithRetry.
FetchResolve(c, response, hookThrows) ==
  /\ calls[c].delivery = "inflight"
  /\ calls' = [calls EXCEPT ![c] =
       IF response.ok
       THEN [@ EXCEPT !.delivery = "fulfilled", !.response = Some(response),
                      !.trace = Append(@, Event("ok", calls[c].i))]
       ELSE catch(config, Throw([@ EXCEPT !.response = Some(response)],
                                StatusError(response)),
                  StatusError(response), now, hookThrows)]
  /\ UNCHANGED <<wrapped, given, env, config, now, ncalls, waitUntilCalls>>

\* Faulty variant: the loop index is shared by the calls in progress.
FetchRejectSharedIndex(c, hookThrows) ==
  /\ calls[c].delivery = "inflight"
  /\ calls' = [d \in DOMAIN calls |->
       IF d = c
       THEN catch(config, Throw(calls[c], NetworkError), NetworkError, now, hookThrows)
       ELSE IF calls[d].delivery \in {"inflight", "backoff"}
            THEN [calls[d] EXCEPT !.i = @ + 1]
            ELSE calls[d]]
  /\ UNCHANGED <<wrapped, given, env, config, now, ncalls, waitUntilCalls>>

\* The transport throws.
FetchReject(c, hookThrows) ==
  /\ calls[c].delivery = "inflight"
  /\ calls' = [calls EXCEPT ![c] =
       catch(config, Throw(@, NetworkError), NetworkError, now, hookThrows)]
  /\ UNCHANGED <<wrapped, given, env, config, now, ncalls, waitUntilCalls>>

\* The rejection of the credential check reaches the catch block.
ConfigErrorCaught(c, hookThrows) ==
  /\ calls[c].delivery = "threw"
  /\ calls' = [calls EXCEPT ![c] =
       catch(config, [@ EXCEPT !.trace = Append(@, Event("failed", calls[c].i))],
             calls[c].thrown[1], now, hookThrows)]
  /\ UNCHANGED <<wrapped, given, env, config, now, ncalls, waitUntilCalls>>

\* Faulty variant: the retry builds a fresh envelope at the current instant.
TimerFireReencodes(c, hookThrows) ==
  /\ calls[c].delivery = "backoff"
  /\ \A d \in DOMAIN calls :
       calls[d].delivery = "backoff" => calls[c].timer <= calls[d].timer
  /\ now' = IF calls[c].timer > now THEN calls[c].timer ELSE now
  /\ calls' = [calls EXCEPT ![c] =
       sendWithRetry(config,
                     [@ EXCEPT !.i = @ + 1, !.timer = 0,
                               !.lokiMessage =
                                 IF config.format THEN @
                                 ELSE Some(generateLokiMessage(config,
                                        calls[c].args.logLevel,
                                        normalizedMessage(calls[c].args.message),
                                        LabelsOrDefault(calls[c].args.labels), now'))],
                     hookThrows)]
  /\ UNCHANGED <<wrapped, given, env, config, ncalls, waitUntilCalls>>

\* A backoff timer fires (the earliest first): i++ and the next attempt.
TimerFire(c, hookThrows) ==
  /\ calls[c].delivery = "backoff"
  /\ \A d \in DOMAIN calls :
       calls[d].delivery = "backoff" => calls[c].timer <= calls[d].timer
  /\ now' = IF calls[c].timer > now THEN calls[c].timer ELSE now
  /\ calls' = [calls EXCEPT ![c] =
       sendWithRetry(config, [@ EXCEPT !.i = @ + 1, !.timer = 0], hookThrows)]
  /\ UNCHANGED <<wrapped, given, env, config, ncalls, waitUntilCalls>>

\* Faulty variant: log returns without awaiting the delivery.
LogReturnEarly(c) ==
  /\ calls[c].pc = "awaiting"
  /\ calls' = [calls EXCEPT ![c].pc = "resolved"]
  /\ UNCHANGED <<wrapped, given, env, config, now, ncalls, waitUntilCalls>>

\* `await promise` in log resumes once the delivery has settled.
LogReturn(c) ==
  /\ calls[c].pc = "awaiting"
  /\ calls[c].delivery \in {"fulfilled", "rejected"}
  /\ calls' = [calls EXCEPT ![c] =
       IF @.delivery = "fulfilled" THEN [@ EXCEPT !.pc = "resolved"]
       ELSE [@ EXCEPT !.pc = "rejected", !.callError = calls[c].deliveryError]]
  /\ UNCHANGED <<wrapped, given, env, config, now, ncalls, waitUntilCalls>>

\* What a configured callback or capability may do when invoked: return or
\* throw.  An absent one is never invoked.
FormatOutcomes == IF config.format THEN BOOLEAN ELSE {FALSE}
HookOutcomes == IF config.onSendError THEN BOOLEAN ELSE {FALSE}
WaitUntilOutcomes(a) ==
  IF effectiveCtx(config, a.ctx) # None THEN BOOLEAN ELSE {FALSE}

Next ==
  \/ \E c \in Slots, a \in CallInputs :
       \E f \in FormatOutcomes, h \in HookOutcomes, w \in WaitUntilOutcomes(a) :
         Log(c, a, f, h, w) /\ UNCHANGED wrapped
  \/ \E c \in Slots, r \in Responses, h \in HookOutcomes : FetchResolve(c, r, h)
  \/ \E c \in Slots, h \in HookOutcomes : FetchReject(c, h)
  \/ \E c \in Slots, h \in HookOutcomes : ConfigErrorCaught(c, h)
  \/ \E c \in Slots, h \in HookOutcomes : TimerFire(c, h)
  \/ \E c \in Slots : LogReturn(c)

Spec == Init /\ [][Next]_vars

\* ------------------------------------------------- concurrent log calls
\* Two log calls of one logger in progress at the same time: the second starts
\* while the first is awaiting its delivery or has deferred it.
ConcurrentSlots == {1, 2}

ConcurrentConfigs ==
  {[BaseConfig EXCEPT !.retries = Some(1), !.onSendError = h, !.ctx = x] :
     h \in BOOLEAN, x \in CtxValues}
  \cup {[BaseConfig EXCEPT !.retries = Some(1), !.lokiToken = None]}

ConcurrentInputs ==
  {Args("info", StringMessage("hello"), None, None),
   Args("error", ObjectMessage(<< <<"test", "message">> >>),
        Some(<< <<"hoge", "huga">> >>), None)}

InitConcurrent ==
  /\ given \in ConcurrentConfigs
  /\ env = NoEnvironment
  /\ config = getLokiLogger(given, env)
  /\ calls = [c \in ConcurrentSlots |-> NewCall]
  /\ now = 0
  /\ ncalls = 0
  /\ waitUntilCalls = [x \in CtxNames |-> 0]
  /\ wrapped = NotWrapped

NextConcurrent ==
  \/ \E c \in ConcurrentSlots, a \in ConcurrentInputs :
       \E f \in FormatOutcomes, h \in HookOutcomes, w \in WaitUntilOutcomes(a) :
         Log(c, a, f, h, w) /\ UNCHANGED wrapped
  \/ \E c \in ConcurrentSlots, r \in Responses, h \in HookOutcomes : FetchResolve(c, r, h)
  \/ \E c \in ConcurrentSlots, h \in HookOutcomes : FetchReject(c, h)
  \/ \E c \in ConcurrentSlots, h \in HookOutcomes : ConfigErrorCaught(c, h)
  \/ \E c \in ConcurrentSlots, h \in HookOutcomes : TimerFire(c, h)
  \/ \E c \in ConcurrentSlots : LogReturn(c)

SpecConcurrent == InitConcurrent /\ [][NextConcurrent]_vars

\* ------------------------------------------- construction and environment
\* Loggers built from given and environment values of every kind (set, empty,
\* unset), in an environment that changes while the logger is in use.
GivenConfigs ==
  {[BaseConfig EXCEPT !.lokiHost = h, !.lokiUser = c[1], !.lokiToken = c[2]] :
     h \in {None, Some(""), Some("h")},
     c \in {<<Some("u"), Some("t")>>, <<None, None>>, <<Some(""), None>>}}

Environments ==
  {Environment(h, l, c[1], c[2]) :
     h \in {None, Some(""), Some("envhost")},
     l \in {None, Some("https://urlhost"), Some("http://urlhost")},
     c \in {<<Some("envuser"), Some("envtoken")>>, <<None, None>>}}

ChangedEnvironments ==
  {NoEnvironment,
   Environment(Some("other"), Some("https://other"), Some("other"), Some("other"))}

EnvInputs == {Args("info", StringMessage("hello"), None, None)}

InitEnv ==
  /\ given \in GivenConfigs
  /\ env \in Environments
  /\ config = getLokiLogger(given, env)
  /\ calls = [c \in Slots |-> NewCall]
  /\ now = 0
  /\ ncalls = 0
  /\ waitUntilCalls = [x \in CtxNames |-> 0]
  /\ wrapped = NotWrapped

\* The program or its host changes the environment.
SetEnv(e) ==
  /\ env # e
  /\ env' = e
  /\ UNCHANGED <<wrapped, given, config, calls, now, ncalls, waitUntilCalls>>

NextEnv ==
  \/ \E c \in Slots, a \in EnvInputs :
       \E f \in FormatOutcomes, h \in HookOutcomes, w \in WaitUntilOutcomes(a) :
         Log(c, a, f, h, w) /\ UNCHANGED wrapped
  \/ \E c \in Slots, r \in Responses, h \in HookOutcomes : FetchResolve(c, r, h)
  \/ \E c \in Slots, h \in HookOutcomes : FetchReject(c, h)
  \/ \E c \in Slots, h \in HookOutcomes : ConfigErrorCaught(c, h)
  \/ \E c \in Slots : LogReturn(c)
  \/ \E e \in ChangedEnvironments : SetEnv(e)

SpecEnv == InitEnv /\ [][NextEnv]_vars

\* ============================================================== properties
\* Vocabulary of the properties below, stated on the configuration, the
\* arguments and the observable effects of a call.

\* -------------------------------------------------------- function wrapper
\* logger.wrap(name, operation): the invocation of the wrapped function reads
\* the clock, runs the operation, reads the clock again and logs one entry
\* through the pipeline above, then gives the operation's outcome to its caller.
WrapNames == {"testFn", "failFn"}

OperationValues == {3}

OperationFailures == {"fail"}

\* Time the operation may take, in milliseconds.
Durations == {0, 10}

WrapConfigs == {BaseConfig, [BaseConfig EXCEPT !.silent = TRUE]}

\* Faulty variant: the duration is start minus end.
successEntryNegativeDuration(name, start, end) ==
  Args("info",
       ObjectMessage(<< <<"function_name", name>>,
                        NumberMember("duration_ms", start - end) >>),
       None, None)

\* The log call of a successful invocation.
successEntry(name, start, end) ==
  Args("info",
       ObjectMessage(<< <<"function_name", name>>,
                        NumberMember("duration_ms", end - start) >>),
       None, None)

\* The log call of a failed invocation.
failureEntry(name, start, end, message) ==
  Args("error",
       ObjectMessage(<< <<"function_name", name>>,
                        NumberMember("duration_ms", end - start),
                        <<"error", message>> >>),
       None, None)

InitWrap ==
  /\ given \in WrapConfigs
  /\ env = NoEnvironment
  /\ config = getLokiLogger(given, env)
  /\ calls = [c \in Slots |-> NewCall]
  /\ now = 0
  /\ ncalls = 0
  /\ waitUntilCalls = [x \in CtxNames |-> 0]
  /\ wrapped = NotWrapped

\* The wrapped function is invoked: the start instant is read.
WrapInvoke(name) ==
  /\ wrapped.pc \in {"idle", "returned", "raised"}
  /\ ncalls < MaxLogCalls
  /\ \A c \in DOMAIN calls : Settled(calls[c])
  /\ wrapped' = [NotWrapped EXCEPT !.pc = "running", !.name = name, !.start = now,
                                   !.invocations = wrapped.invocations + 1]
  /\ UNCHANGED <<given, env, config, calls, now, ncalls, waitUntilCalls>>

\* The operation returns v after d milliseconds: the end instant is read.
OperationReturns(v, d) ==
  /\ wrapped.pc = "running"
  /\ now' = now + d
  /\ wrapped' = [wrapped EXCEPT !.pc = "ended", !.end = now',
                                !.outcome = Some(<<"value", v>>)]
  /\ UNCHANGED <<given, env, config, calls, ncalls, waitUntilCalls>>

\* The operation fails with message m after d milliseconds.
OperationThrows(m, d) ==
  /\ wrapped.pc = "running"
  /\ now' = now + d
  /\ wrapped' = [wrapped EXCEPT !.pc = "ended", !.end = now',
                                !.outcome = Some(<<"failure", m>>)]
  /\ UNCHANGED <<given, env, config, calls, ncalls, waitUntilCalls>>

\* The wrapper logs the entry of the invocation: info on success, error on
\* failure.
WrapEmit(c, hookThrows, wuThrows) ==
  /\ wrapped.pc = "ended"
  /\ Log(c,
         IF wrapped.outcome[1][1] = "value"
         THEN successEntry(wrapped.name, wrapped.start, wrapped.end)
         ELSE failureEntry(wrapped.name, wrapped.start, wrapped.end,
                           wrapped.outcome[1][2]),
         FALSE, hookThrows, wuThrows)
  /\ wrapped' = [wrapped EXCEPT !.pc = "logging"]

\* Faulty variant: the failure of the operation is swallowed.
WrapSettleSwallows(c) ==
  /\ wrapped.pc = "logging"
  /\ calls[c].pc = "resolved"
  /\ wrapped' = [wrapped EXCEPT !.pc = "returned",
                                !.result = IF wrapped.outcome[1][1] = "value"
                                           THEN wrapped.outcome ELSE None]
  /\ UNCHANGED <<given, env, config, calls, now, ncalls, waitUntilCalls>>

\* The log call is over: the wrapper returns the operation's value or raises
\* the operation's failure.
WrapSettle(c) ==
  /\ wrapped.pc = "logging"
  /\ calls[c].pc = "resolved"
  /\ wrapped' = [wrapped EXCEPT !.pc = IF wrapped.outcome[1][1] = "value"
                                       THEN "returned" ELSE "raised",
                                !.result = wrapped.outcome]
  /\ UNCHANGED <<given, env, config, calls, now, ncalls, waitUntilCalls>>

NextWrap ==
  \/ \E name \in WrapNames : WrapInvoke(name)
  \/ \E v \in OperationValues, d \in Durations : OperationReturns(v, d)
  \/ \E m \in OperationFailures, d \in Durations : OperationThrows(m, d)
  \/ \E c \in Slots, h \in HookOutcomes :
       \E w \in WaitUntilOutcomes(successEntry("", 0, 0)) : WrapEmit(c, h, w)
  \/ \E c \in Slots : WrapSettle(c)
  \/ \E c \in Slots, r \in Responses, h \in HookOutcomes :
       FetchResolve(c, r, h)
  \/ \E c \in Slots, h \in HookOutcomes : FetchReject(c, h)
  \/ \E c \in Slots : LogReturn(c)

SpecWrap == InitWrap /\ [][NextWrap]_vars

\* ------------------------------------------------- request-derived labels
\* A request-like object: method, url and the headers that are present.
RequestLike(method, url, headers) ==
  [method |-> method, url |-> url, headers |-> headers]

\* request.headers.get(name): None when the header is missing.
HeaderGet(request, name) ==
  IF Has(request.headers, name) THEN Some(Get(request.headers, name)) ELSE None

\* The label key, if the header is present.
HeaderLabel(request, name, key) ==
  IF HeaderGet(request, name) = None THEN EmptyObject
  ELSE << <<key, HeaderGet(request, name)[1]>> >>

\* Faulty variant: a missing header yields an empty label.
extractPlaceholders(request) ==
  IF request = None THEN EmptyObject
  ELSE << <<"http_method", request[1].method>>, <<"http_url", request[1].url>>,
          <<"http_user_agent", IF HeaderGet(request[1], "user-agent") = None THEN ""
                               ELSE HeaderGet(request[1], "user-agent")[1]>>,
          <<"trace_id", IF HeaderGet(request[1], "cf-ray") = None THEN ""
                        ELSE HeaderGet(request[1], "cf-ray")[1]>>,
          <<"request_id", IF HeaderGet(request[1], "x-request-id") = None THEN ""
                          ELSE HeaderGet(request[1], "x-request-id")[1]>> >>

\* The Request Extractor: labels of an optional request.
extract(request) ==
  IF request = None THEN EmptyObject
  ELSE << <<"http_method", request[1].method>>, <<"http_url", request[1].url>> >>
       \o HeaderLabel(request[1], "user-agent", "http_user_agent")
       \o HeaderLabel(request[1], "cf-ray", "trace_id")
       \o HeaderLabel(request[1], "x-request-id", "request_id")

\* The Label Composer with request-derived labels: the stream of
\* generateLokiMessage with the request-derived labels spread before the
\* call-site labels.
compose(cfg, logLevel, requestLabels, labels) ==
  Spread(Spread(Spread(SpreadOpt(<< <<"level", logLevel>> >>, cfg.defaultLabels),
                       cfLabels(cfg)),
                requestLabels),
         labels)

\* A configuration with a default request.
WithRequest(cfg, request) ==
  [k \in DOMAIN cfg \cup {"request"} |-> IF k = "request" THEN request ELSE cfg[k]]

HeadersValues ==
  {EmptyObject,
   << <<"user-agent", "test-agent">> >>,
   << <<"cf-ray", "ray-123">> >>,
   << <<"x-request-id", "req-456">> >>,
   << <<"user-agent", "test-agent">>, <<"cf-ray", "ray-123">>,
      <<"x-request-id", "req-456">> >>}

RequestValues ==
  {None} \cup {Some(RequestLike("GET", "https://example.com/api", h)) : h \in HeadersValues}

RequestConfigs ==
  {WithRequest([BaseConfig EXCEPT !.defaultLabels = d], r) :
     d \in {None, Some(<< <<"http_method", "1">> >>),
            Some(<< <<"trace_id", "1">>, <<"env", "prod">> >>)},
     r \in RequestValues}

RequestInputs ==
  {Args(l, StringMessage("hello"), lb, None) :
     l \in {"info", "error"},
     lb \in {None, Some(<< <<"http_method", "3">> >>),
             Some(<< <<"request_id", "3">>, <<"hoge", "huga">> >>)}}

InitRequest ==
  /\ given \in RequestConfigs
  /\ env = NoEnvironment
  /\ config = getLokiLogger(given, env)
  /\ calls = [c \in Slots |-> NewCall]
  /\ now = 0
  /\ ncalls = 0
  /\ waitUntilCalls = [x \in CtxNames |-> 0]
  /\ wrapped = NotWrapped

\* A level method builds the envelope of a call on a logger with a request.
EncodeWithRequest(c, a) ==
  /\ ncalls < MaxLogCalls
  /\ calls' = [calls EXCEPT ![c] =
       [NewCall EXCEPT
          !.args = a, !.pc = "resolved",
          !.lokiMessage =
            Some(LokiMessage(compose(config, a.logLevel, extract(config.request),
                                     LabelsOrDefault(a.labels)),
                             << <<Timestamp(now),
                                  JSONStringify(normalizedMessage(a.message))>> >>))]]
  /\ ncalls' = ncalls + 1
  /\ UNCHANGED <<wrapped, given, env, config, now, waitUntilCalls>>

NextRequest == \E c \in Slots, a \in RequestInputs : EncodeWithRequest(c, a)

SpecRequest == InitRequest /\ [][NextRequest]_vars

\* ------------------------------------------------- delivery under fairness
\* The deliveries of Spec under the scheduling the runtime guarantees: a
\* rejected promise reaches its catch block, an armed timer fires, and (the
\* assumption made of the transport) a fetch in flight settles.
LiveConfigs ==
  DeliveryConfigs \cup
  {[BaseConfig EXCEPT !.lokiToken = None, !.retries = r, !.onSendError = h] :
     r \in {None, Some(1)}, h \in BOOLEAN}

InitLive ==
  /\ given \in LiveConfigs
  /\ env = NoEnvironment
  /\ config = getLokiLogger(given, env)
  /\ calls = [c \in Slots |-> NewCall]
  /\ now = 0
  /\ ncalls = 0
  /\ waitUntilCalls = [x \in CtxNames |-> 0]
  /\ wrapped = NotWrapped

\* The transport invocation of call c returns a response or throws.
TransportSettles(c) ==
  \/ \E r \in Responses, h \in HookOutcomes : FetchResolve(c, r, h)
  \/ \E h \in HookOutcomes : FetchReject(c, h)

Fairness ==
  \A c \in Slots :
    /\ WF_vars(TransportSettles(c))
    /\ WF_vars(\E h \in HookOutcomes : ConfigErrorCaught(c, h))
    /\ WF_vars(\E h \in HookOutcomes : TimerFire(c, h))

SpecLive == InitLive /\ [][Next]_vars /\ Fairness

\* ------------------------------------------------------- property vocabulary
Called(rec) == rec.pc # "idle"

\* The configured retry count N (0 when absent).
ConfiguredRetries == IF config.retries = None THEN 0 ELSE config.retries[1]

CredentialsPresent ==
  /\ config.lokiHost \notin {None, Some("")}
  /\ config.lokiUser \notin {None, Some("")}
  /\ config.lokiToken \notin {None, Some("")}

\* debug < info < warn < error
LevelsAbove(l) ==
  CASE l = "debug" -> {"info", "warn", "error"}
    [] l = "info" -> {"warn", "error"}
    [] l = "warn" -> {"error"}
    [] l = "error" -> {}

ConfiguredMinLevel == IF config.minLevel = None THEN "debug" ELSE config.minLevel[1]

\* The call's level is not below the configured minimum.
Accepted(rec) == Called(rec) /\ ConfiguredMinLevel \notin LevelsAbove(rec.args.logLevel)

\* Accepted, not silent, and the encoder has returned an envelope.
Delivering(rec) == Accepted(rec) /\ ~config.silent /\ rec.lokiMessage # None

Hooks(rec) == Count(rec, "onSendError") + Count(rec, "console.error")

DeliveryOver(rec) == rec.delivery \in {"fulfilled", "rejected"}

\* The capability the call is expected to use: call-site first, then config.
ExpectedCtx(rec) == IF rec.args.ctx # None THEN rec.args.ctx ELSE config.ctx

\* C1: a log call never rejects because of a delivery failure.  Whatever the
\* level, the retry count and the transport do, a rejected log call carries
\* the exception of a caller-supplied formatter, callback or capability,
\* never a transport or configuration error; the delivery operation itself
\* never rejects with one either, and a call that resolved carries no error.
C1_NeverRejectsOnDeliveryFailure ==
  \A c \in Slots :
    LET rec == calls[c]
    IN  /\ rec.pc = "rejected" =>
             rec.callError \in {Some(FormatError), Some(HookError), Some(WaitUntilError)}
        /\ rec.delivery = "rejected" => rec.deliveryError = Some(HookError)
        /\ rec.pc = "resolved" => rec.callError = None
        /\ (rec.pc = "awaiting" /\ DeliveryOver(rec) /\ Count(rec, "onSendError") = 0)
             => rec.delivery = "fulfilled"

\* An awaited call resolved after every attempt of a retried delivery failed.
C1_Witness ==
  \E c \in Slots :
    /\ calls[c].pc = "resolved"
    /\ Count(calls[c], "waitUntil") = 0
    /\ Count(calls[c], "fetch") >= 2
    /\ Count(calls[c], "failed") = Count(calls[c], "fetch")
    /\ Count(calls[c], "console.error") = 1

\* C2: with retries = N >= 0 and credentials present, a delivery whose every
\* transport attempt fails makes exactly N+1 transport invocations and then
\* invokes the failure hook exactly once, after the last attempt.
C2_AllFailAttemptsAndHook ==
  \A c \in Slots :
    LET rec == calls[c]
    IN  (Delivering(rec) /\ CredentialsPresent /\ ConfiguredRetries >= 0
         /\ Count(rec, "ok") = 0)
        => /\ Count(rec, "fetch") <= ConfiguredRetries + 1
           /\ Hooks(rec) <= 1
           /\ Hooks(rec) = 1 <=> DeliveryOver(rec)
           /\ DeliveryOver(rec) =>
                /\ Count(rec, "fetch") = ConfiguredRetries + 1
                /\ Count(rec, "failed") = ConfiguredRetries + 1
                /\ Last(rec, "fetch") < Last(rec, "failed")
                /\ rec.trace[Last(rec, "failed") + 1].op \in {"onSendError", "console.error"}

\* Retries = MaxRetries, every attempt failed, onSendError invoked.
C2_Witness ==
  \E c \in Slots :
    /\ config.retries = Some(MaxRetries)
    /\ DeliveryOver(calls[c])
    /\ Count(calls[c], "fetch") = MaxRetries + 1
    /\ Count(calls[c], "ok") = 0
    /\ Count(calls[c], "onSendError") = 1

\* C3: if attempts 1..k-1 fail and attempt k succeeds (k <= N+1), the call
\* makes exactly k transport invocations, none after the successful one, and
\* never invokes the failure hook.
C3_SuccessStopsDelivery ==
  \A c \in Slots :
    LET rec == calls[c]
    IN  Count(rec, "ok") >= 1
        => /\ Count(rec, "ok") = 1
           /\ rec.trace[Len(rec.trace)].op = "ok"
           /\ Count(rec, "fetch") = Count(rec, "failed") + 1
           /\ Count(rec, "fetch") <= ConfiguredRetries + 1
           /\ Hooks(rec) = 0
           /\ rec.delivery = "fulfilled"

\* Two failed attempts, then a successful third.
C3_Witness ==
  \E c \in Slots :
    /\ Count(calls[c], "ok") = 1
    /\ Count(calls[c], "failed") = 2
    /\ Count(calls[c], "fetch") = 3

\* C4: a call whose level is below the configured minimum (debug when none is
\* configured) has no effect at all: no echo, no encoding, no transport call,
\* no handoff; a call at or above the minimum is accepted and echoed.
C4_LevelFilter ==
  \A c \in Slots :
    LET rec == calls[c]
    IN  Called(rec) =>
          IF ConfiguredMinLevel \in LevelsAbove(rec.args.logLevel)
          THEN /\ rec.trace = <<>>
               /\ rec.pc = "resolved"
               /\ rec.delivery = "none"
               /\ rec.lokiMessage = None
          ELSE rec.trace # <<>> /\ rec.trace[1].op = "console.log"

\* An info call dropped under minLevel warn, a default capability being
\* configured and never invoked.
C4_Witness ==
  \E c \in Slots :
    /\ config.minLevel = Some("warn")
    /\ config.ctx = Some("ctx1")
    /\ calls[c].args.logLevel = "info"
    /\ calls[c].pc = "resolved"
    /\ calls[c].trace = <<>>
    /\ waitUntilCalls["ctx1"] = 0

\* C5: every accepted call echoes the JSON of its normalized message exactly
\* once, silent or not, whatever the retries and the outcome of the delivery.
C5_EchoExactlyOnce ==
  \A c \in Slots :
    Accepted(calls[c]) => Count(calls[c], "console.log") = 1

\* A silent call has echoed.
C5_Witness ==
  \E c \in Slots :
    /\ config.silent
    /\ calls[c].pc = "resolved"
    /\ Count(calls[c], "console.log") = 1

\* C6: in silent mode the echo is the only effect of an accepted call: no
\* formatter invocation, no encoding, no transport call, no handoff to any
\* capability, configured or passed, and no failure hook.
C6_SilentOnlyEchoes ==
  config.silent =>
    /\ \A x \in CtxNames : waitUntilCalls[x] = 0
    /\ \A c \in Slots :
         LET rec == calls[c]
         IN  /\ Len(rec.trace) <= 1
             /\ \A k \in 1..Len(rec.trace) : rec.trace[k].op = "console.log"
             /\ rec.lokiMessage = None
             /\ rec.delivery = "none"
             /\ rec.pc \in {"idle", "resolved"}

\* A silent logger with a formatter and a default capability, called with a
\* call-site capability: only the echo happened.
C6_Witness ==
  \E c \in Slots :
    /\ config.silent /\ config.format /\ config.ctx = Some("ctx1")
    /\ calls[c].args.ctx = Some("ctx2")
    /\ calls[c].pc = "resolved"
    /\ Count(calls[c], "console.log") = 1

\* C7: with an effective capability (call-site or config) a delivering call
\* invokes waitUntil exactly once and settles in the same step, never waiting
\* for the delivery: it is resolved unless waitUntil itself threw.
C7_DeferredDoesNotWait ==
  \A c \in Slots :
    LET rec == calls[c]
    IN  (Delivering(rec) /\ ExpectedCtx(rec) # None)
        => /\ Count(rec, "waitUntil") = 1
           /\ rec.pc # "awaiting"
           /\ rec.pc = "rejected" => rec.callError = Some(WaitUntilError)

\* The call has resolved while its delivery is in a backoff wait, the first
\* attempt having failed and the failure hook still to come.
C7_Witness ==
  \E c \in Slots :
    /\ calls[c].pc = "resolved"
    /\ calls[c].delivery = "backoff"
    /\ Count(calls[c], "waitUntil") = 1
    /\ Hooks(calls[c]) = 0

\* C8: without any capability a delivering call settles only after the
\* delivery is over: after the successful attempt, or after the last failed
\* attempt and the failure hook; nothing of the delivery is left to run.
C8_AwaitedWaitsForDelivery ==
  \A c \in Slots :
    LET rec == calls[c]
    IN  (Delivering(rec) /\ ExpectedCtx(rec) = None /\ rec.pc \in {"resolved", "rejected"})
        => /\ Count(rec, "waitUntil") = 0
           /\ DeliveryOver(rec)
           /\ \/ Count(rec, "ok") = 1 /\ Hooks(rec) = 0
                   /\ rec.trace[Len(rec.trace)].op = "ok"
              \/ Count(rec, "ok") = 0 /\ Hooks(rec) = 1
                   /\ rec.trace[Len(rec.trace)].op \in {"onSendError", "console.error"}
                   /\ (ConfiguredRetries >= 0
                         => Count(rec, "failed") = ConfiguredRetries + 1)

\* An awaited call resolved after MaxRetries + 1 failed attempts and the
\* failure callback.
C8_Witness ==
  \E c \in Slots :
    /\ ExpectedCtx(calls[c]) = None
    /\ calls[c].pc = "resolved"
    /\ config.retries = Some(MaxRetries)
    /\ Count(calls[c], "failed") = MaxRetries + 1
    /\ Count(calls[c], "onSendError") = 1

\* C9: a call-site capability overrides the config default for that call
\* only: a delivering call invokes waitUntil on the call-site capability when
\* one is passed and on no other, and on the config capability when none is
\* passed, whatever earlier calls on the logger were given.
C9_CallSiteCtxOverrides ==
  \A c \in Slots :
    LET rec == calls[c]
    IN  /\ Count(rec, "waitUntil") <= 1
        /\ Delivering(rec) =>
             IF rec.args.ctx # None
             THEN Count(rec, "waitUntil") = 1
                  /\ rec.trace[First(rec, "waitUntil")].arg = rec.args.ctx[1]
             ELSE IF config.ctx # None
             THEN Count(rec, "waitUntil") = 1
                  /\ rec.trace[First(rec, "waitUntil")].arg = config.ctx[1]
             ELSE Count(rec, "waitUntil") = 0
        /\ waitUntilCalls["ctx1"] + waitUntilCalls["ctx2"] <= ncalls
        /\ config.ctx = None => waitUntilCalls["ctx1"] = 0

\* After a call that used its call-site capability ctx2, a later call without
\* one uses the config capability ctx1.
C9_Witness ==
  \E c \in Slots :
    /\ config.ctx = Some("ctx1")
    /\ waitUntilCalls["ctx2"] = 1
    /\ waitUntilCalls["ctx1"] = 1
    /\ calls[c].args.ctx = None
    /\ Count(calls[c], "waitUntil") = 1
    /\ calls[c].trace[First(calls[c], "waitUntil")].arg = "ctx1"

\* The stream of the envelope the default encoder built for the call.
StreamOf(rec) == rec.lokiMessage[1].streams[1].stream

CallLabels(rec) == IF rec.args.labels = None THEN <<>> ELSE rec.args.labels[1]

\* C10: in the default encoder call-site labels win every key conflict: each
\* key of the call-site labels carries the call-site value in the stream,
\* level included, and every other key of the stream carries the value it
\* has when the same call is made without call-site labels.
C10_CallSiteLabelsWin ==
  \A c \in Slots :
    LET rec == calls[c]
    IN  (Delivering(rec) /\ ~config.format)
        => LET stream == StreamOf(rec)
               labels == CallLabels(rec)
               others == StreamLabels(config, rec.args.logLevel, EmptyObject)
           IN  /\ Cardinality(Keys(stream)) = Len(stream)
               /\ Keys(stream) = Keys(others) \cup Keys(labels)
               /\ \A k \in Keys(labels) : Get(stream, k) = Get(labels, k)
               /\ \A k \in Keys(others) \ Keys(labels) : Get(stream, k) = Get(others, k)

\* Call-site labels level, env and cf_colo against a default label level,
\* the level label and the cf-derived cf_colo.
C10_Witness ==
  \E c \in Slots :
    /\ Delivering(calls[c])
    /\ config.cf # None
    /\ config.defaultLabels # None
    /\ Has(config.defaultLabels[1], "level")
    /\ Has(CallLabels(calls[c]), "level")
    /\ Get(StreamOf(calls[c]), "level") = "fromCall"
    /\ Get(StreamOf(calls[c]), "cf_colo") = "fromCall"
    /\ Has(StreamOf(calls[c]), "cf_asn")

\* C11: among the configuration sources the labels are composed level, then
\* cf-derived, then default labels, later winning: a key set by the default
\* labels and not at the call site carries the default label's value in the
\* stream, also when a cf-derived label or the level label has the same key.
C11_DefaultLabelsOverrideCf ==
  \A c \in Slots :
    LET rec == calls[c]
    IN  (Delivering(rec) /\ ~config.format /\ config.defaultLabels # None)
        => \A k \in Keys(config.defaultLabels[1]) \ Keys(CallLabels(rec)) :
             Get(StreamOf(rec), k) = Get(config.defaultLabels[1], k)

\* The events op of the call, in order.
EventsOf(rec, op) == SelectSeq(rec.trace, LAMBDA e : e.op = op)

\* C12: when host, user or token is absent or empty, every attempt fails with
\* the configuration error before any transport call, and the failure takes
\* the ordinary path: with retries = N >= 0, N+1 failed attempts separated by
\* the backoff waits 100, 200, ... ms, then the failure hook once; the log
\* call is rejected by nothing but an exception of onSendError or waitUntil.
C12_MissingCredentials ==
  \A c \in Slots :
    LET rec == calls[c]
        timers == EventsOf(rec, "setTimeout")
    IN  (Delivering(rec) /\ ~CredentialsPresent /\ ConfiguredRetries >= 0)
        => /\ Count(rec, "fetch") = 0
           /\ Count(rec, "ok") = 0
           /\ Count(rec, "sendToLoki") >= 1
           /\ Count(rec, "sendToLoki") <= ConfiguredRetries + 1
           /\ rec.thrown =
                Some([source |-> "sendToLoki",
                      message |-> "Loki configuration missing (host, user, or token)"])
           /\ \A j \in 1..Len(timers) : timers[j].arg = 100 * 2 ^ (j - 1)
           /\ Len(timers) \in {Count(rec, "sendToLoki") - 1, Count(rec, "sendToLoki")}
           /\ Hooks(rec) = 1 <=> DeliveryOver(rec)
           /\ DeliveryOver(rec) =>
                /\ Count(rec, "sendToLoki") = ConfiguredRetries + 1
                /\ Count(rec, "failed") = ConfiguredRetries + 1
                /\ Len(timers) = ConfiguredRetries
           /\ rec.pc = "rejected" =>
                rec.callError \in {Some(HookError), Some(WaitUntilError)}

\* No token, retries = 1: two failed attempts 100 ms apart, no transport
\* call, the hook once, the awaited call resolved.
C12_Witness ==
  \E c \in Slots :
    /\ config.lokiToken = None
    /\ config.retries = Some(1)
    /\ calls[c].pc = "resolved"
    /\ Count(calls[c], "waitUntil") = 0
    /\ Count(calls[c], "fetch") = 0
    /\ Count(calls[c], "failed") = 2
    /\ Count(calls[c], "setTimeout") = 1
    /\ Hooks(calls[c]) = 1
    /\ now = 100

\* C13: an accepted call encodes one envelope: the encoder (default or
\* formatter) runs exactly once, before the first attempt, and the default
\* encoder reads the clock once; every transport call of the delivery carries
\* that envelope as its body and onSendError receives it, whatever the number
\* of retries and the time that has passed since.
C13_OneEnvelopePerCall ==
  \A c \in Slots :
    LET rec == calls[c]
        encoded == EventsOf(rec, "format") \o EventsOf(rec, "generateLokiMessage")
        fetches == EventsOf(rec, "fetch")
    IN  Delivering(rec)
        => /\ Len(encoded) = 1
           /\ Count(rec, "sendToLoki") > 0 =>
                First(rec, "sendToLoki") >
                  First(rec, "format") + First(rec, "generateLokiMessage")
           /\ \A j \in 1..Len(fetches) :
                /\ fetches[j].arg.body = fetches[1].arg.body
                /\ fetches[j].arg.body = <<"JSON.stringify", rec.lokiMessage[1]>>
           /\ \A k \in 1..Len(rec.trace) :
                rec.trace[k].op = "onSendError"
                  => rec.trace[k].arg[2] = rec.lokiMessage[1]
           /\ ~config.format =>
                /\ encoded[1].arg <= now
                /\ rec.lokiMessage[1].streams[1].values[1][1]
                     = ToString(encoded[1].arg) \o "000000"

\* Three transport calls over 300 ms, then onSendError: all with the envelope
\* stamped at the instant of the call, 0.
C13_Witness ==
  \E c \in Slots :
    /\ ~config.format
    /\ Count(calls[c], "fetch") = 3
    /\ Count(calls[c], "onSendError") = 1
    /\ now = 300
    /\ calls[c].lokiMessage[1].streams[1].values[1][1] = "0000000"

\* C14: once the attempts are used up without a success the failure is
\* reported by exactly one of two routes.  With onSendError configured the
\* callback is invoked once, after the last failed attempt, with the error
\* that attempt failed with and the envelope, and nothing is written with
\* console.error; without it console.error is written once and no callback is
\* invoked.
C14_FailureRoutingExclusive ==
  \A c \in Slots :
    LET rec == calls[c]
        hooks == EventsOf(rec, "onSendError")
    IN  Delivering(rec)
        => /\ config.onSendError =>
                /\ Count(rec, "console.error") = 0
                /\ Len(hooks) <= 1
           /\ ~config.onSendError =>
                /\ Len(hooks) = 0
                /\ Count(rec, "console.error") <= 1
           /\ (DeliveryOver(rec) /\ Count(rec, "ok") = 0) => Hooks(rec) = 1
           /\ Hooks(rec) = 1 =>
                /\ Count(rec, "ok") = 0
                /\ Count(rec, "failed") = Count(rec, "sendToLoki")
                /\ Last(rec, "failed") < Last(rec, "onSendError") + Last(rec, "console.error")
           /\ \A j \in 1..Len(hooks) :
                hooks[j].arg = <<rec.thrown, rec.lokiMessage[1]>>

\* retries = 1 and onSendError: the transport throws or answers 500 twice, and
\* the callback is invoked once with the 500 error of the second attempt.
C14_Witness ==
  \E c \in Slots :
    /\ config.onSendError
    /\ config.retries = Some(1)
    /\ Count(calls[c], "failed") = 2
    /\ Count(calls[c], "console.error") = 0
    /\ EventsOf(calls[c], "onSendError") =
         << [op |-> "onSendError",
             arg |-> << Some([source |-> "sendToLoki",
                              message |-> "Loki push failed: 500 Fatal"]),
                        calls[c].lokiMessage[1] >>] >>

\* C15: without a failure hook, what console.error is given after the
\* attempts are used up contains the error of the last attempt and the
\* envelope that was attempted, as onSendError would have received them.
C15_DiagnosticCarriesEnvelope ==
  \A c \in Slots :
    LET rec == calls[c]
        written == EventsOf(rec, "console.error")
    IN  (Delivering(rec) /\ ~config.onSendError)
        => \A j \in 1..Len(written) :
             Tail(written[j].arg) = <<rec.thrown, rec.lokiMessage[1]>>

\* C16: an attempt succeeds exactly when fetch returns a response whose ok
\* flag is set; it fails when fetch throws or the response is not ok, and then
\* the error is "Loki push failed: <status> <statusText>" of that response.
\* Every attempt ends as one success or one failure, the k-th failure is that
\* of attempt k, and there are never more than retries + 1 attempts.
C16_AttemptOutcome ==
  \A c \in Slots :
    LET rec == calls[c]
        failures == EventsOf(rec, "failed")
        pending == IF rec.delivery = "inflight" THEN 1 ELSE 0
        succeeded == Last(rec, "ok") > Last(rec, "failed")
    IN  (Delivering(rec) /\ CredentialsPresent)
        => /\ Count(rec, "sendToLoki") = Count(rec, "ok") + Len(failures) + pending
           /\ Count(rec, "sendToLoki") = Count(rec, "fetch")
           /\ Count(rec, "sendToLoki") <= ConfiguredRetries + 1
           /\ Count(rec, "ok") <= 1
           /\ \A j \in 1..Len(failures) : failures[j].arg = j - 1
           /\ succeeded => (rec.response # None /\ rec.response[1].ok)
           /\ (rec.response # None /\ rec.response[1].ok) => succeeded
           /\ (rec.response # None /\ ~rec.response[1].ok) =>
                /\ Len(failures) = Count(rec, "sendToLoki")
                /\ rec.thrown =
                     Some([source |-> "sendToLoki",
                           message |-> "Loki push failed: "
                                         \o ToString(rec.response[1].status)
                                         \o " " \o rec.response[1].statusText])
           /\ (rec.response = None /\ pending = 0 /\ Count(rec, "fetch") > 0) =>
                /\ Len(failures) = Count(rec, "sendToLoki")
                /\ rec.thrown = Some(NetworkError)

\* retries = 2: the first attempt fails (fetch throws or answers 500), the
\* second gets a 500 response and fails with its status text, and a third
\* attempt is on its way after the 100 and 200 ms waits.
C16_Witness ==
  \E c \in Slots :
    /\ config.retries = Some(2)
    /\ calls[c].delivery = "backoff"
    /\ Count(calls[c], "failed") = 2
    /\ calls[c].response = Some([ok |-> FALSE, status |-> 500, statusText |-> "Fatal"])
    /\ calls[c].thrown[1].message = "Loki push failed: 500 Fatal"
    /\ calls[c].timer = 300

\* C17: with a configuration of host h, user u and token t only (no
\* formatter, default labels or cf), every transport call of a call at level V
\* with labels L made at instant ts is a POST to https://h/loki/api/v1/push
\* with Content-Type application/json and Authorization Basic base64(u:t),
\* whose body is the envelope of one stream, labelled {level: V} merged with
\* L, with the one value pair [ts followed by 000000, JSON of the normalized
\* message]; without retries there is exactly one such call.
C17_DefaultWireFormat ==
  \A c \in Slots :
    LET rec == calls[c]
        fetches == EventsOf(rec, "fetch")
        L == CallLabels(rec)
        json == IF rec.args.message.isString
                THEN "{\"message\":\"" \o rec.args.message.str \o "\"}"
                ELSE "{\"test\":\"message\"}"
    IN  (/\ Delivering(rec)
         /\ config.lokiHost = Some("h") /\ config.lokiUser = Some("u")
         /\ config.lokiToken = Some("t")
         /\ ~config.format /\ config.defaultLabels = None /\ config.cf = None)
        => /\ ConfiguredRetries >= 0 => Len(fetches) >= 1
           /\ config.retries = None => Len(fetches) = 1
           /\ \A j \in 1..Len(fetches) :
                LET req == fetches[j].arg
                    streams == req.body[2].streams
                IN  /\ req.url = "https://h/loki/api/v1/push"
                    /\ req.method = "POST"
                    /\ req.contentType = "application/json"
                    /\ req.authorization = <<"Basic", "btoa", "u:t">>
                    /\ req.body[1] = "JSON.stringify"
                    /\ DOMAIN req.body[2] = {"streams"}
                    /\ Len(streams) = 1
                    /\ Keys(streams[1].stream) = {"level"} \cup Keys(L)
                    /\ Len(streams[1].stream) = Cardinality(Keys(streams[1].stream))
                    /\ \A k \in Keys(L) : Get(streams[1].stream, k) = Get(L, k)
                    /\ "level" \notin Keys(L) =>
                         Get(streams[1].stream, "level") = rec.args.logLevel
                    /\ streams[1].values =
                         << << ToString(EventsOf(rec, "generateLokiMessage")[1].arg)
                                 \o "000000", json >> >>

\* info("hello", {hoge: "huga"}) at instant 100: the request on the wire.
C17_Witness ==
  \E c \in Slots :
    /\ calls[c].args.labels = Some(<< <<"hoge", "huga">> >>)
    /\ calls[c].delivery = "fulfilled"
    /\ EventsOf(calls[c], "fetch") =
         << [op |-> "fetch",
             arg |-> [url |-> "https://h/loki/api/v1/push",
                      method |-> "POST",
                      contentType |-> "application/json",
                      authorization |-> <<"Basic", "btoa", "u:t">>,
                      body |-> <<"JSON.stringify",
                                 [streams |-> <<
                                    [stream |-> << <<"level", "info">>,
                                                   <<"hoge", "huga">> >>,
                                     values |-> << <<"100000000",
                                                    "{\"message\":\"hello\"}">> >>] >>]>>]] >>

\* C18: a string message s is normalized to {message: s}, an object message
\* to itself; the normalized message is what console.log echoes (as JSON),
\* what the formatter is given as its second argument, and what the default
\* encoder serializes as the value of the envelope.
C18_MessageNormalization ==
  \A c \in Slots :
    LET rec == calls[c]
        m == rec.args.message
        normalized == IF m.isString THEN << <<"message", m.str>> >> ELSE m.obj
        json == IF m.isString THEN "{\"message\":\"" \o m.str \o "\"}"
                ELSE "{\"test\":\"message\"}"
        echoes == EventsOf(rec, "console.log")
        formats == EventsOf(rec, "format")
    IN  Accepted(rec)
        => /\ Len(echoes) = 1
           /\ echoes[1].arg = json
           /\ \A j \in 1..Len(formats) : formats[j].arg[2] = normalized
           /\ (config.format /\ ~config.silent) => Len(formats) = 1
           /\ (~config.format /\ rec.lokiMessage # None) =>
                rec.lokiMessage[1].streams[1].values[1][2] = json

\* info({test: "message"}) sent with the default encoder: echoed and
\* serialized as {"test":"message"}, not wrapped.
C18_Witness ==
  \E c \in Slots :
    /\ calls[c].args.message = ObjectMessage(<< <<"test", "message">> >>)
    /\ Count(calls[c], "ok") = 1
    /\ calls[c].trace[1] = [op |-> "console.log", arg |-> "{\"test\":\"message\"}"]
    /\ calls[c].lokiMessage[1].streams[1].values[1][2] = "{\"test\":\"message\"}"

\* C19: with a formatter configured the default encoder is not used: an
\* accepted, non-silent call invokes the formatter once, with the level, the
\* normalized message and the call's labels, and the envelope of every
\* transport call and of onSendError is the formatter's return value as it
\* is, with no level, default or cf label added.
C19_FormatterVerbatim ==
  \A c \in Slots :
    LET rec == calls[c]
        formats == EventsOf(rec, "format")
        fetches == EventsOf(rec, "fetch")
        hooks == EventsOf(rec, "onSendError")
        returned == [streams |-> << [stream |-> << <<"custom", "label">> >>,
                                     values |-> << <<"123456", "custom-body">> >>] >>]
    IN  (Accepted(rec) /\ ~config.silent /\ config.format)
        => /\ Count(rec, "generateLokiMessage") = 0
           /\ Len(formats) = 1
           /\ formats[1].arg[1] = rec.args.logLevel
           /\ formats[1].arg[3] = CallLabels(rec)
           /\ rec.lokiMessage # None =>
                /\ rec.lokiMessage[1] = returned
                /\ ConfiguredRetries >= 0 => Len(fetches) >= 1
                /\ \A j \in 1..Len(fetches) :
                     fetches[j].arg.body = <<"JSON.stringify", returned>>
                /\ \A j \in 1..Len(hooks) : hooks[j].arg[2] = returned

\* Formatter, retries = 1 and onSendError: two transport calls and the
\* callback, all with the formatter's envelope.
C19_Witness ==
  \E c \in Slots :
    /\ config.format
    /\ Count(calls[c], "format") = 1
    /\ Count(calls[c], "fetch") = 2
    /\ Count(calls[c], "onSendError") = 1
    /\ calls[c].lokiMessage[1].streams[1].stream = << <<"custom", "label">> >>

\* C20: when the formatter throws, the log call is rejected with the
\* formatter's error and nothing follows the throw: the echo has been written
\* before it, no envelope exists, no transport call is made, nothing is handed
\* to waitUntil and no failure hook is invoked.
C20_FormatterErrorPropagates ==
  \A c \in Slots :
    LET rec == calls[c]
        formatError == [source |-> "format", message |-> "format failed"]
    IN  /\ Count(rec, "threw") > 0
           => /\ rec.pc = "rejected"
              /\ rec.callError = Some(formatError)
              /\ rec.lokiMessage = None
              /\ rec.delivery = "none"
              /\ rec.trace = << rec.trace[1], rec.trace[2],
                                [op |-> "threw", arg |-> formatError] >>
              /\ rec.trace[1].op = "console.log"
              /\ rec.trace[2].op = "format"
        /\ rec.callError = Some(formatError) => Count(rec, "threw") = 1

\* A formatter that throws, with a capability and onSendError configured: the
\* call is rejected and the capability has not been used.
C20_Witness ==
  \E c \in Slots :
    /\ config.format /\ config.ctx = Some("ctx1") /\ config.onSendError
    /\ calls[c].pc = "rejected"
    /\ calls[c].callError = Some(FormatError)
    /\ waitUntilCalls["ctx1"] = 0
    /\ Len(calls[c].trace) = 3
    /\ calls[c].trace[1].op = "console.log"

\* C21: with two log calls in progress at once, under every interleaving of
\* their steps each call keeps to itself: at most retries + 1 attempts,
\* numbered by its own loop index, every transport call with the envelope built
\* from its own level, message and labels, and at most one failure hook, given
\* its own last error and its own envelope.
C21_ConcurrentCallsIndependent ==
  \A c \in DOMAIN calls :
    LET rec == calls[c]
        attempts == EventsOf(rec, "sendToLoki")
        failures == EventsOf(rec, "failed")
        fetches == EventsOf(rec, "fetch")
        hooks == EventsOf(rec, "onSendError")
        own == IF rec.args.logLevel = "info"
               THEN [stream |-> << <<"level", "info">> >>,
                     value |-> "{\"message\":\"hello\"}"]
               ELSE [stream |-> << <<"level", "error">>, <<"hoge", "huga">> >>,
                     value |-> "{\"test\":\"message\"}"]
    IN  Delivering(rec)
        => /\ rec.lokiMessage[1].streams[1].stream = own.stream
           /\ rec.lokiMessage[1].streams[1].values[1][2] = own.value
           /\ Len(attempts) <= ConfiguredRetries + 1
           /\ \A j \in 1..Len(attempts) : attempts[j].arg = j - 1
           /\ \A j \in 1..Len(failures) : failures[j].arg = j - 1
           /\ \A j \in 1..Len(fetches) :
                fetches[j].arg.body = <<"JSON.stringify", rec.lokiMessage[1]>>
           /\ Hooks(rec) <= 1
           /\ (DeliveryOver(rec) /\ Count(rec, "ok") = 0) =>
                /\ Hooks(rec) = 1
                /\ Len(failures) = ConfiguredRetries + 1
           /\ \A j \in 1..Len(hooks) :
                hooks[j].arg = <<rec.thrown, rec.lokiMessage[1]>>

\* Both calls have used up their attempts while the other was in progress:
\* the first failed on a thrown transport error, the second on a 500 response,
\* and each hook got its own error and envelope.
C21_Witness ==
  /\ DOMAIN calls = {1, 2}
  /\ config.onSendError
  /\ calls[1].args.logLevel = "info" /\ calls[2].args.logLevel = "error"
  /\ ncalls = 2
  /\ \A c \in DOMAIN calls : Count(calls[c], "failed") = 2
  /\ EventsOf(calls[1], "onSendError")[1].arg[1] = Some(NetworkError)
  /\ EventsOf(calls[2], "onSendError")[1].arg[1] =
       Some([source |-> "sendToLoki", message |-> "Loki push failed: 500 Fatal"])
  /\ EventsOf(calls[1], "onSendError")[1].arg[2] # EventsOf(calls[2], "onSendError")[1].arg[2]

\* The value a credential resolves to: the given one when it is a non-empty
\* string, otherwise the one of the environment.
ResolvedFrom(explicit, fromEnv) ==
  IF explicit # None /\ explicit[1] # "" THEN explicit ELSE fromEnv

\* LOKI_HOST when set and not empty, else LOKI_URL without its scheme.
HostFromEnv(e) ==
  IF e.LOKI_HOST # None /\ e.LOKI_HOST[1] # "" THEN e.LOKI_HOST
  ELSE IF e.LOKI_URL \in {Some("https://urlhost"), Some("http://urlhost")}
       THEN Some("urlhost")
       ELSE e.LOKI_URL

\* At construction the merged configuration holds the resolved credentials.
ResolvedAtConstruction ==
  /\ config.lokiHost = ResolvedFrom(given.lokiHost, HostFromEnv(env))
  /\ config.lokiUser = ResolvedFrom(given.lokiUser, env.LOKI_USER)
  /\ config.lokiToken = ResolvedFrom(given.lokiToken, env.LOKI_TOKEN)

\* Every transport call of the call in progress goes to the host and with the
\* credentials of the merged configuration.
RequestsUseConfig ==
  \A c \in DOMAIN calls :
    LET fetches == EventsOf(calls[c], "fetch")
    IN  \A j \in 1..Len(fetches) :
          /\ config.lokiHost # None /\ config.lokiUser # None /\ config.lokiToken # None
          /\ fetches[j].arg.url = "https://" \o config.lokiHost[1] \o "/loki/api/v1/push"
          /\ fetches[j].arg.authorization =
               <<"Basic", "btoa", config.lokiUser[1] \o ":" \o config.lokiToken[1]>>

\* C22: host, user and token are resolved when the logger is built, each from
\* the given value when that is not empty and else from the environment
\* (LOKI_HOST, else LOKI_URL without http:// or https://; LOKI_USER;
\* LOKI_TOKEN); no later step, a change of the environment included, changes
\* the merged configuration, and every transport call uses its values.
C22_CredentialsResolvedOnce ==
  /\ ResolvedAtConstruction
  /\ [][config' = config]_vars
  /\ []RequestsUseConfig

\* No host given, LOKI_URL = https://urlhost at construction, the environment
\* replaced afterwards: the call is posted to urlhost with the environment's
\* first user and token.
C22_Witness ==
  \E c \in Slots :
    /\ given.lokiHost = None /\ given.lokiUser = None
    /\ env.LOKI_HOST = Some("other") /\ env.LOKI_URL = Some("https://other")
    /\ Count(calls[c], "ok") = 1
    /\ EventsOf(calls[c], "fetch")[1].arg.url = "https://urlhost/loki/api/v1/push"
    /\ EventsOf(calls[c], "fetch")[1].arg.authorization
         = <<"Basic", "btoa", "envuser:envtoken">>

\* C23: when the operation returns V, the wrapped function returns V and has
\* logged exactly one entry for the invocation, at level info, whose message
\* holds function_name, the name given to wrap, and duration_ms, the end
\* instant minus the start instant, which is not negative.
C23_WrapSuccess ==
  \A c \in Slots :
    (wrapped.pc = "returned")
    => /\ wrapped.outcome # None /\ wrapped.outcome[1][1] = "value"
       /\ wrapped.result = wrapped.outcome
       /\ ncalls = wrapped.invocations
       /\ calls[c].args.logLevel = "info"
       /\ Keys(calls[c].args.message.obj) = {"function_name", "duration_ms"}
       /\ Get(calls[c].args.message.obj, "function_name") = wrapped.name
       /\ Get(calls[c].args.message.obj, "duration_ms") = wrapped.end - wrapped.start
       /\ Get(calls[c].args.message.obj, "duration_ms") >= 0
       /\ Count(calls[c], "console.log") = 1
       /\ ~config.silent => Count(calls[c], "fetch") = 1

\* wrap("testFn", fn) where fn returns 3 after 10 ms: 3 is returned and the
\* entry {"function_name":"testFn","duration_ms":10} was sent at level info.
C23_Witness ==
  \E c \in Slots :
    /\ wrapped.pc = "returned"
    /\ wrapped.result = Some(<<"value", 3>>)
    /\ wrapped.name = "testFn"
    /\ calls[c].trace[1] =
         [op |-> "console.log", arg |-> "{\"function_name\":\"testFn\",\"duration_ms\":10}"]
    /\ Count(calls[c], "ok") = 1
    /\ StreamOf(calls[c]) = << <<"level", "info">> >>

\* C24: when the operation fails, the wrapped function raises that same
\* failure and has logged exactly one entry for the invocation, at level error
\* and not at level info, whose error member is the failure's message.
C24_WrapFailure ==
  \A c \in Slots :
    /\ (wrapped.outcome # None /\ wrapped.outcome[1][1] = "failure"
        /\ wrapped.pc \notin {"ended", "logging"})
       => /\ wrapped.pc = "raised"
          /\ wrapped.result = wrapped.outcome
          /\ ncalls = wrapped.invocations
          /\ calls[c].args.logLevel = "error"
          /\ Keys(calls[c].args.message.obj) = {"function_name", "duration_ms", "error"}
          /\ Get(calls[c].args.message.obj, "error") = wrapped.outcome[1][2]
          /\ Get(calls[c].args.message.obj, "function_name") = wrapped.name
          /\ Count(calls[c], "console.log") = 1
    /\ wrapped.pc = "raised" => wrapped.outcome[1][1] = "failure"

\* wrap("failFn", fn) where fn throws "fail": the failure is raised and the
\* entry sent at level error has error "fail".
C24_Witness ==
  \E c \in Slots :
    /\ wrapped.pc = "raised"
    /\ wrapped.result = Some(<<"failure", "fail">>)
    /\ wrapped.name = "failFn"
    /\ calls[c].trace[1] =
         [op |-> "console.log",
          arg |-> "{\"function_name\":\"failFn\",\"duration_ms\":0,\"error\":\"fail\"}"]
    /\ Count(calls[c], "fetch") = 1
    /\ StreamOf(calls[c]) = << <<"level", "error">> >>

\* C25: request-derived labels override default labels and are overridden
\* by call-site labels (default {a: 1}, request {a: 2, b: 2}, call site
\* {a: 3} give {a: 3, b: 2} and the level); the request of the configuration
\* contributes http_method and http_url, and http_user_agent, trace_id and
\* request_id each only when its header is present.
C25_RequestLabels ==
  \A c \in Slots :
    LET rec == calls[c]
        S == StreamOf(rec)
        L == CallLabels(rec)
        D == IF config.defaultLabels = None THEN <<>> ELSE config.defaultLabels[1]
        fromHeader == [http_user_agent |-> "user-agent", trace_id |-> "cf-ray",
                       request_id |-> "x-request-id"]
        elsewhere == Keys(L) \cup Keys(D)
    IN  rec.lokiMessage # None
        => /\ \A k \in Keys(L) : Get(S, k) = Get(L, k)
           /\ \A k \in Keys(D) \ Keys(L) :
                Get(S, k) = Get(D, k) \/ config.request # None
           /\ Len(S) = Cardinality(Keys(S))
           /\ config.request = None => Keys(S) = {"level"} \cup elsewhere
           /\ config.request # None =>
                LET request == config.request[1]
                IN  /\ {"level", "http_method", "http_url"} \cup elsewhere \subseteq Keys(S)
                    /\ "http_method" \notin Keys(L) => Get(S, "http_method") = request.method
                    /\ "http_url" \notin Keys(L) => Get(S, "http_url") = request.url
                    /\ \A k \in DOMAIN fromHeader :
                         IF fromHeader[k] \in Keys(request.headers)
                         THEN k \in Keys(S)
                              /\ (k \notin Keys(L) =>
                                    Get(S, k) = Get(request.headers, fromHeader[k]))
                         ELSE (k \in Keys(S) <=> k \in elsewhere)
                              /\ (k \in Keys(D) \ Keys(L) => Get(S, k) = Get(D, k))
                    /\ \A k \in Keys(D) \ (Keys(L) \cup DOMAIN fromHeader
                                            \cup {"http_method", "http_url"}) :
                         Get(S, k) = Get(D, k)

\* Default {http_method: 1}, a GET request without headers, call site
\* {http_method: 3}: the stream is level, http_method 3 and the request's url.
C25_Witness ==
  \E c \in Slots :
    /\ config.defaultLabels = Some(<< <<"http_method", "1">> >>)
    /\ config.request = Some([method |-> "GET", url |-> "https://example.com/api",
                              headers |-> <<>>])
    /\ calls[c].args.labels = Some(<< <<"http_method", "3">> >>)
    /\ StreamOf(calls[c]) = << <<"level", "info">>, <<"http_method", "3">>,
                               <<"http_url", "https://example.com/api">> >>

\* C26: the failure of attempt k (counted from 1) is followed, when
\* k <= retries, by a timer of exactly 100 * 2^(k-1) ms and then by attempt
\* k + 1, and otherwise directly by the failure hook; a timer is set only
\* after a failed attempt, so nothing is waited for before the first attempt.
C26_BackoffSchedule ==
  \A c \in Slots :
    LET rec == calls[c]
        tr == rec.trace
    IN  (Delivering(rec) /\ ConfiguredRetries >= 0)
        => /\ \A p \in 1..Len(tr) :
                /\ tr[p].op = "failed" =>
                     /\ p < Len(tr)
                     /\ IF tr[p].arg + 1 <= ConfiguredRetries
                        THEN /\ tr[p + 1] = [op |-> "setTimeout",
                                             arg |-> 100 * 2 ^ tr[p].arg]
                             /\ p + 2 <= Len(tr) =>
                                  tr[p + 2] = [op |-> "sendToLoki", arg |-> tr[p].arg + 1]
                        ELSE /\ tr[p + 1].op \in {"onSendError", "console.error"}
                             /\ p + 1 = Len(tr)
                /\ tr[p].op = "setTimeout" => (p > 1 /\ tr[p - 1].op = "failed")
           /\ tr[First(rec, "sendToLoki") - 1].op \in {"format", "generateLokiMessage"}
           /\ rec.delivery = "backoff" =>
                /\ tr[Len(tr)].op = "setTimeout"
                /\ rec.timer = now + 100 * 2 ^ rec.i

\* retries = 2 and three failures: waits of 100 and 200 ms, none before the
\* hook, which runs at instant 300.
C26_Witness ==
  \E c \in Slots :
    /\ config.retries = Some(2)
    /\ EventsOf(calls[c], "setTimeout") =
         << [op |-> "setTimeout", arg |-> 100], [op |-> "setTimeout", arg |-> 200] >>
    /\ Count(calls[c], "failed") = 3
    /\ Hooks(calls[c]) = 1
    /\ now = 300

\* The attempts of the call that have started and not yet ended.
InFlight(rec) == Count(rec, "sendToLoki") - Count(rec, "ok") - Count(rec, "failed")

\* At most one attempt is under way, and every attempt after the first comes
\* right after the timer set by the failure of the attempt before it.
OneAttemptAtATime ==
  \A c \in Slots :
    LET rec == calls[c]
        tr == rec.trace
    IN  Delivering(rec)
        => /\ InFlight(rec) \in {0, 1}
           /\ InFlight(rec) = 1 <=> rec.delivery \in {"inflight", "threw"}
           /\ \A p \in 1..Len(tr) :
                (tr[p].op = "sendToLoki" /\ tr[p].arg > 0)
                  => /\ p > 2
                     /\ tr[p - 1].op = "setTimeout"
                     /\ tr[p - 2] = [op |-> "failed", arg |-> tr[p].arg - 1]

\* A further attempt of a call starts from the backoff wait, one at a time,
\* and not before the deadline of the timer.
AttemptAfterBackoff ==
  \A c \in Slots :
    (ncalls' = ncalls /\ Count(calls'[c], "sendToLoki") > Count(calls[c], "sendToLoki"))
    => /\ calls[c].delivery = "backoff"
       /\ InFlight(calls[c]) = 0
       /\ Count(calls'[c], "sendToLoki") = Count(calls[c], "sendToLoki") + 1
       /\ now' >= calls[c].timer

\* C27: the attempts of one log call are sequential, whether the delivery is
\* awaited or handed to waitUntil: never two attempts under way at once, and
\* attempt k + 1 starts only after attempt k has failed and the backoff timer
\* set by that failure has reached its deadline.
C27_AttemptsSequential == []OneAttemptAtATime /\ [][AttemptAfterBackoff]_vars

\* A deferred delivery whose second attempt is under way at instant 100,
\* after the first has failed.
C27_Witness ==
  \E c \in Slots :
    /\ Count(calls[c], "waitUntil") = 1
    /\ calls[c].pc = "resolved"
    /\ calls[c].delivery = "inflight"
    /\ Count(calls[c], "sendToLoki") = 2
    /\ Count(calls[c], "failed") = 1
    /\ now = 100

\* C28: whatever onSendError does when it is invoked after the last failed
\* attempt, return or throw, the delivery operation does not reject, so an awaited log call resolves and the
\* operation handed to waitUntil is not a rejected one.
C28_HookNeverThrowsBack ==
  \A c \in Slots :
    LET rec == calls[c]
    IN  (Delivering(rec) /\ Count(rec, "failed") > 0 /\ Hooks(rec) > 0)
        => /\ rec.delivery = "fulfilled"
           /\ rec.deliveryError = None
           /\ Count(rec, "waitUntil") = 0 => rec.pc \in {"awaiting", "resolved"}

\* C29: in every accepted call the echo is the first thing the call does: it is
\* written, and no encoding (default encoder or formatter), delivery attempt,
\* transport invocation or handoff to waitUntil of that call precedes it.
C29_EchoFirst ==
  \A c \in Slots :
    LET rec == calls[c]
    IN  (Called(rec) /\ Accepted(rec))
        => /\ Count(rec, "console.log") > 0
           /\ \A op \in {"format", "generateLokiMessage", "sendToLoki", "fetch",
                          "waitUntil"} :
                Count(rec, op) > 0 => First(rec, "console.log") < First(rec, op)

\* An accepted call with a formatter, handed to waitUntil, whose transport was
\* invoked: echo, format, sendToLoki, fetch and waitUntil are all in its trace.
C29_Witness ==
  \E c \in Slots :
    /\ Accepted(calls[c])
    /\ \A op \in {"console.log", "format", "sendToLoki", "fetch", "waitUntil"} :
         Count(calls[c], op) > 0

\* C30: no step changes the configuration the logger was built from or the
\* resolved configuration, whatever the call (accepted, filtered, silent,
\* delivered or failed, with or without labels and capability); and between
\* two log calls the arguments a call was made with (labels, message object,
\* capability) stay as the caller passed them while the delivery proceeds.
C30_InputsUnchanged ==
  [][/\ config' = config
     /\ given' = given
     /\ ncalls' = ncalls => \A c \in Slots : calls'[c].args = calls[c].args]_vars

\* Two calls were made, the later one with call-site labels and an object
\* message, encoded by the default encoder into a stream that has more keys
\* than the labels passed, and its delivery has ended in the failure hook.
C30_Witness ==
  /\ ncalls = 2
  /\ \E c \in Slots :
       LET rec == calls[c]
       IN  /\ Delivering(rec) /\ ~config.format
           /\ rec.args.labels # None /\ rec.args.labels # Some(EmptyObject)
           /\ ~rec.args.message.isString
           /\ StreamOf(rec) # rec.args.labels[1]
           /\ Hooks(rec) > 0

\* C31: the failure hook runs only after a failed delivery attempt, whatever
\* the configured retries value (absent, 0, positive or negative): when the
\* hook of an accepted non-silent call has run, the call has attempted the
\* delivery at least once, an attempt has failed, and the error handed to the
\* hook is the error of an attempt.
C31_HookAfterAttempt ==
  \A c \in Slots :
    LET rec == calls[c]
    IN  (Delivering(rec) /\ Hooks(rec) > 0)
        => /\ Count(rec, "sendToLoki") > 0
           /\ Count(rec, "failed") > 0
           /\ rec.lastError # None

\* C32: on the deferred path the delivery is started before it is handed off:
\* when waitUntil has been called for a call, the first attempt (sendToLoki,
\* hence the credential check) was entered before it, and with credentials
\* present the transport was invoked before it; this also when waitUntil throws.
C32_StartedBeforeHandoff ==
  \A c \in Slots :
    LET rec == calls[c]
    IN  Count(rec, "waitUntil") > 0
        => /\ Count(rec, "sendToLoki") > 0
           /\ First(rec, "sendToLoki") < First(rec, "waitUntil")
           /\ CredentialsPresent
                => /\ Count(rec, "fetch") > 0
                   /\ First(rec, "fetch") < First(rec, "waitUntil")

\* The same ordering for the retries values that make the loop run.
C32_StartedBeforeHandoffLoopRuns ==
  ConfiguredRetries >= 0 => C32_StartedBeforeHandoff

AttemptOps == {"sendToLoki", "fetch", "setTimeout"}

OutcomeOps == {"ok", "onSendError", "console.error"}

\* The delivery of rec has at most one outcome, is over exactly when it has
\* one, does nothing of the retry loop after it, and has made at most
\* retries + 1 attempts (none for a negative count).
OneOutcome(rec) ==
  LET outcomes == Count(rec, "ok") + Hooks(rec)
      budget == IF ConfiguredRetries + 1 > 0 THEN ConfiguredRetries + 1 ELSE 0
  IN  /\ outcomes <= 1
      /\ DeliveryOver(rec) <=> outcomes = 1
      /\ Count(rec, "sendToLoki") <= budget
      /\ \A k \in 1..Len(rec.trace) :
           rec.trace[k].op \in OutcomeOps
             => \A j \in (k + 1)..Len(rec.trace) : rec.trace[j].op \notin AttemptOps

\* C33: given that a transport invocation settles and a timer fires, every
\* accepted non-silent delivery ends, and it ends with exactly one outcome:
\* a successful attempt or one invocation of the failure hook, never both,
\* within retries + 1 attempts and with no attempt after the outcome.
C33_DeliveryTerminatesOnce ==
  /\ [](\A c \in Slots : Delivering(calls[c]) => OneOutcome(calls[c]))
  /\ \A c \in Slots : Delivering(calls[c]) ~> DeliveryOver(calls[c])

\* A delivery with retries configured that used its whole budget and ended in
\* the failure hook.
C33_Witness ==
  \E c \in Slots :
    /\ Delivering(calls[c]) /\ DeliveryOver(calls[c])
    /\ ConfiguredRetries >= 1
    /\ Count(calls[c], "sendToLoki") = ConfiguredRetries + 1
    /\ Hooks(calls[c]) = 1 /\ Count(calls[c], "ok") = 0

====
